---- MODULE Spec2Model ----
(***************************************************************************)
(* A model of the cosh virtual machine core: the value model and its       *)
(* coercions (src/src/chunk.rs), the arithmetic and comparison opcodes     *)
(* (src/src/vm/vm_arithmetic.rs), the stack-shuffle and conversion opcodes *)
(* (src/src/vm/vm_basics.rs) and the CommandGenerator line reader          *)
(* (src/src/chunk.rs).                                                     *)
(*                                                                         *)
(* TLC integers are 32 bits wide, so the machine widths are scaled down:   *)
(* an i32 is modelled with I32Bits bits and a u64 with U64Bits bits.  All  *)
(* overflow boundaries are expressed through MinI32, MaxI32 and MaxU64.    *)
(***************************************************************************)
EXTENDS Integers, Sequences, FiniteSets, TLC

VARIABLES
    stack,      \* VM.stack: the value stack, bottom first
    prev,       \* the value stack as it was when the last opcode was dispatched
    op,         \* the opcode dispatched last ("none" before the first one)
    ret,        \* what the last opcode returned to the dispatch loop (0 or 1)
    diag,       \* the diagnostic the last opcode printed ("" when none)
    panicked,   \* TRUE once an opcode has panicked or aborted the process
    pipe,       \* per stream: bytes the child has written and nobody has read
    closed,     \* per stream: the child has closed its end
    eof,        \* per stream: NonBlockingReader.eof
    buffer,     \* CommandGenerator.stdout_buffer / stderr_buffer
    flags,      \* CommandGenerator.get_stdout / get_stderr / get_combined
    pc,         \* position of the running read_line / read_line_combined call
    result,     \* what the last finished call returned
    written,    \* per stream: every byte the child has written so far
    delivered,  \* per stream: the lines returned so far, concatenated
    lastLine,   \* per stream: the line returned last
    nones,      \* how many calls have returned None (counted up to NonesCap)
    heap,       \* the Rc<RefCell<..>> cells allocated so far, by address
    orig,       \* the value the last CLONE was given (None before the first)
    copy,       \* the value the last CLONE pushed
    snap,       \* the heap as the last CLONE left it, and its length before
    side,       \* which of orig and copy has been written through since,
                \* and how many writes and CLONEs there have been
    data,       \* Chunk.data: the instruction bytes
    points,     \* Chunk.points: a (line, column) pair per byte index
    constants,  \* Chunk.constants: the ValueSD pool
    aborted,    \* TRUE once a Chunk call has aborted or panicked
    call,       \* the last Chunk call: its name, argument and return value
    old,        \* data, points and constants as the last Chunk call found them
    hist,       \* when each byte was compiled and each point was set
    triple,     \* the StringTriple built last (None before the first)
    gen,        \* the Generator value the program holds (None before the call)
    vm_locals,  \* the VM's local-variable stack
    vm_calls,   \* the VM's call stack: (chunk, return index) frames
    saved,      \* the outer local and call stacks while a SHIFT runs
    run,        \* where the dispatch loop is: the outer program, or a chunk
                \* and instruction index of the generator
    called,     \* the arguments the generator function was called with
    shifts      \* per SHIFT so far: what it injected, resumed and captured

vmVars == <<stack, prev, op, ret, diag, panicked>>
cgVars == <<pipe, closed, eof, buffer, flags, pc, result, written, delivered,
            lastLine, nones>>
cloneVars == <<heap, orig, copy, snap, side>>
chunkVars == <<data, points, constants, aborted, call, old, hist>>
stringVars == <<triple>>
genVars == <<gen, vm_locals, vm_calls, saved, run, called, shifts>>
vars == <<stack, prev, op, ret, diag, panicked, pipe, closed, eof, buffer, flags,
          pc, result, written, delivered, lastLine, nones,
          heap, orig, copy, snap, side,
          data, points, constants, aborted, call, old, hist, triple,
          gen, vm_locals, vm_calls, saved, run, called, shifts>>

(***************************************************************************)
(* Bounds.                                                                 *)
(***************************************************************************)
I32Bits == 4
U64Bits == 6
ArithDepth == 2
ShuffleDepth == 3
MaxBytes == 2      \* bytes the child writes to one stream
NonesCap == 2      \* calls returning None that are counted
MaxClones == 1     \* CLONE opcodes of a program
MaxWrites == 2     \* writes through a cloned value or its original
MaxItems == 2      \* elements of a list that is pushed to
MaxAdds == 3       \* bytes compiled into a chunk
MaxSets == 2       \* set_next_point calls on a chunk
MaxConstants == 2  \* constants added to a chunk
MaxText == 3       \* characters of a text that is escaped
OctetBits == 1     \* bits of an octet of an IP address
MaxArgs == 1       \* arguments a generator function is called with
MaxShifts == 5     \* SHIFTs of one generator

MinI32 == 0 - 2^(I32Bits - 1)
MaxI32 == 2^(I32Bits - 1) - 1
MaxU64 == 2^U64Bits - 1

(***************************************************************************)
(* Options: None is the empty sequence, Some(x) the one-element sequence.  *)
(***************************************************************************)
None == <<>>
Some(x) == <<x>>
IsSome(o) == Len(o) = 1
Unwrap(o) == o[1]

Abs(n) == IF n < 0 THEN 0 - n ELSE n
Sign(n) == IF n < 0 THEN 0 - 1 ELSE 1

\* Integer division truncating toward zero (Rust `/` on i32 and on BigInt).
TruncDiv(a, b) == Sign(a) * Sign(b) * (Abs(a) \div Abs(b))

RECURSIVE GCD(_, _)
GCD(a, b) == IF b = 0 THEN a ELSE GCD(b, a % b)

FitsI32(n) == MinI32 <= n /\ n <= MaxI32

(***************************************************************************)
(* Text is a sequence of characters, each a short string: "bs" is the      *)
(* backslash, "dq" the double quote, "nl", "cr" and "tab" the newline,     *)
(* carriage return and tab; every other character stands for itself.      *)
(***************************************************************************)
\* The loop of escape_string over the characters that are left.
RECURSIVE escape_chars(_, _)
escape_chars(s, next_escaped) ==
    IF s = <<>> THEN <<>>
    ELSE LET c == Head(s)
         IN  IF next_escaped
             THEN (CASE c = "bs" -> <<"bs">>
                     [] c = "dq" -> <<"bs", "bs", "dq">>
                     [] OTHER -> <<"bs", c>>)
                  \o escape_chars(Tail(s), FALSE)
             ELSE IF c = "bs" THEN escape_chars(Tail(s), TRUE)
             ELSE (CASE c = "nl" -> <<"bs", "n">>
                     [] c = "cr" -> <<"bs", "r">>
                     [] c = "tab" -> <<"bs", "t">>
                     [] c = "dq" -> <<"bs", "dq">>
                     [] OTHER -> <<c>>)
                  \o escape_chars(Tail(s), FALSE)

escape_string(s) == escape_chars(s, FALSE)

\* StringTriple::new and StringTriple::new_with_escaped; the regex cache is
\* left out.
StringTriple_new(s) == [string |-> s, escaped_string |-> escape_string(s)]
StringTriple_new_with_escaped(s, e) == [string |-> s, escaped_string |-> e]

(***************************************************************************)
(* Value: the variants of chunk.rs that the modelled opcodes distinguish.  *)
(* A Float is a sign, a kind (finite, infinite, NaN) and for a finite      *)
(* value a reduced fraction n/d; zero keeps its sign as in IEEE-754.       *)
(* A String holds its raw text and its escaped text.                       *)
(***************************************************************************)
VNull == [t |-> "Null"]
VBool(q) == [t |-> "Bool", q |-> q]
VInt(n) == [t |-> "Int", i |-> n]
VBigInt(n) == [t |-> "BigInt", b |-> n]
VString(s) == [t |-> "String", str |-> s, esc |-> escape_string(s)]
VList(l) == [t |-> "List", items |-> l]

FFin(s, n, d) ==
    LET g == GCD(n, d)
    IN  [t |-> "Float", k |-> "fin", s |-> s, n |-> n \div g, d |-> d \div g]
FInf(s) == [t |-> "Float", k |-> "inf", s |-> s, n |-> 0, d |-> 1]
FNaN == [t |-> "Float", k |-> "nan", s |-> 1, n |-> 0, d |-> 1]
VFloat(num, den) == FFin(Sign(num), Abs(num), den)
FIsZero(a) == a.k = "fin" /\ a.n = 0

\* f64 addition.
FAdd(a, b) ==
    IF a.k = "nan" \/ b.k = "nan" THEN FNaN
    ELSE IF a.k = "inf" /\ b.k = "inf" THEN (IF a.s = b.s THEN a ELSE FNaN)
    ELSE IF a.k = "inf" THEN a
    ELSE IF b.k = "inf" THEN b
    ELSE LET num == a.s * a.n * b.d + b.s * b.n * a.d
         IN  IF num = 0
             THEN FFin(IF a.s < 0 /\ b.s < 0 THEN 0 - 1 ELSE 1, 0, 1)
             ELSE FFin(Sign(num), Abs(num), a.d * b.d)

FNeg(a) == IF a.k = "nan" THEN a ELSE [a EXCEPT !.s = 0 - a.s]

\* f64 subtraction.
FSub(a, b) == FAdd(a, FNeg(b))

\* f64 multiplication.
FMul(a, b) ==
    IF a.k = "nan" \/ b.k = "nan" THEN FNaN
    ELSE IF (a.k = "inf" /\ FIsZero(b)) \/ (FIsZero(a) /\ b.k = "inf") THEN FNaN
    ELSE IF a.k = "inf" \/ b.k = "inf" THEN FInf(a.s * b.s)
    ELSE FFin(a.s * b.s, a.n * b.n, a.d * b.d)

\* f64 division.
FDiv(a, b) ==
    IF a.k = "nan" \/ b.k = "nan" THEN FNaN
    ELSE IF (a.k = "inf" /\ b.k = "inf") \/ (FIsZero(a) /\ FIsZero(b)) THEN FNaN
    ELSE IF a.k = "inf" THEN FInf(a.s * b.s)
    ELSE IF b.k = "inf" THEN FFin(a.s * b.s, 0, 1)
    ELSE IF FIsZero(b) THEN FInf(a.s * b.s)
    ELSE FFin(a.s * b.s, a.n * b.d, a.d * b.n)

\* f64 ==
FEq(a, b) ==
    /\ a.k # "nan"
    /\ b.k # "nan"
    /\ (FIsZero(a) /\ FIsZero(b)) \/ a = b

\* f64 <
FLt(a, b) ==
    /\ a.k # "nan"
    /\ b.k # "nan"
    /\ ~FEq(a, b)
    /\ IF a.k = "inf" THEN a.s < 0
       ELSE IF b.k = "inf" THEN b.s > 0
       ELSE a.s * a.n * b.d < b.s * b.n * a.d

\* f64 >
FGt(a, b) == FLt(b, a)

\* `f as i32`: truncation toward zero, saturating, NaN to 0.
FloatAsI32(f) ==
    IF f.k = "nan" THEN 0
    ELSE IF f.k = "inf" THEN (IF f.s < 0 THEN MinI32 ELSE MaxI32)
    ELSE LET q == f.s * (f.n \div f.d)
         IN  IF q < MinI32 THEN MinI32 ELSE IF q > MaxI32 THEN MaxI32 ELSE q

(***************************************************************************)
(* Text: decimal parsing and formatting over sequences of characters.      *)
(* The parsers cover the alphabet of digits, "+", "-" and "."; any other   *)
(* character makes them fail, as it does in Rust.                          *)
(***************************************************************************)
DigitChars == <<"0", "1", "2", "3", "4", "5", "6", "7", "8", "9">>
IsDigit(c) == \E i \in 1..10 : DigitChars[i] = c
DigitVal(c) == (CHOOSE i \in 1..10 : DigitChars[i] = c) - 1
AllDigits(s) == \A i \in 1..Len(s) : IsDigit(s[i])

RECURSIVE DecVal(_)
DecVal(s) ==
    IF s = <<>> THEN 0
    ELSE DecVal(SubSeq(s, 1, Len(s) - 1)) * 10 + DigitVal(s[Len(s)])

RECURSIVE FormatNat(_)
FormatNat(n) ==
    IF n < 10 THEN <<DigitChars[n + 1]>>
    ELSE FormatNat(n \div 10) \o <<DigitChars[(n % 10) + 1]>>

\* format!("{}", n) for an i32 or a BigInt.
FormatInt(n) == IF n < 0 THEN <<"-">> \o FormatNat(0 - n) ELSE FormatNat(n)

\* The longest fraction FormatFloat prints for a non-terminating expansion.
FracDigitsCap == 3

RECURSIVE FracDigits(_, _, _)
FracDigits(r, d, k) ==
    IF r = 0 \/ k = 0 THEN <<>>
    ELSE <<DigitChars[((r * 10) \div d) + 1]>> \o FracDigits((r * 10) % d, d, k - 1)

\* format!("{}", f) for an f64.
FormatFloat(f) ==
    IF f.k = "nan" THEN <<"N", "a", "N">>
    ELSE IF f.k = "inf"
    THEN (IF f.s < 0 THEN <<"-">> ELSE <<>>) \o <<"i", "n", "f">>
    ELSE (IF f.s < 0 THEN <<"-">> ELSE <<>>)
         \o FormatNat(f.n \div f.d)
         \o (IF f.n % f.d = 0 THEN <<>>
             ELSE <<".">> \o FracDigits(f.n % f.d, f.d, FracDigitsCap))

\* str::parse::<i32>()
ParseI32(s) ==
    LET signed == Len(s) > 0 /\ s[1] \in {"+", "-"}
        body == IF signed THEN Tail(s) ELSE s
    IN  IF body = <<>> \/ ~AllDigits(body) THEN None
        ELSE LET v == (IF signed /\ s[1] = "-" THEN 0 - 1 ELSE 1) * DecVal(body)
             IN  IF FitsI32(v) THEN Some(v) ELSE None

\* str::parse::<num_bigint::BigInt>()
ParseBigInt(s) ==
    LET neg == Len(s) > 0 /\ s[1] = "-"
        t1 == IF neg THEN Tail(s) ELSE s
        plus == Len(t1) > 1 /\ t1[1] = "+"
        body == IF plus THEN Tail(t1) ELSE t1
    IN  IF (neg /\ plus) \/ body = <<>> \/ ~AllDigits(body) THEN None
        ELSE Some((IF neg THEN 0 - 1 ELSE 1) * DecVal(body))

\* str::parse::<f64>()
ParseF64(s) ==
    LET signed == Len(s) > 0 /\ s[1] \in {"+", "-"}
        sg == IF signed /\ s[1] = "-" THEN 0 - 1 ELSE 1
        body == IF signed THEN Tail(s) ELSE s
        dots == {i \in 1..Len(body) : body[i] = "."}
    IN  IF dots = {}
        THEN (IF body = <<>> \/ ~AllDigits(body) THEN None
              ELSE Some(FFin(sg, DecVal(body), 1)))
        ELSE LET p == CHOOSE i \in dots : \A j \in dots : i <= j
                 ip == SubSeq(body, 1, p - 1)
                 fp == SubSeq(body, p + 1, Len(body))
             IN  IF ~AllDigits(ip) \/ ~AllDigits(fp) \/ Len(ip) + Len(fp) = 0
                 THEN None
                 ELSE Some(FFin(sg, DecVal(ip) * 10^Len(fp) + DecVal(fp),
                                10^Len(fp)))

(***************************************************************************)
(* Coercions of Value (chunk.rs).                                          *)
(***************************************************************************)
\* Value::to_string; abort is the std::process::abort() of the String arm.
to_string(v) ==
    CASE v.t = "String" -> [abort |-> TRUE, val |-> None]
      [] v.t = "Int" -> [abort |-> FALSE, val |-> Some(FormatInt(v.i))]
      [] v.t = "BigInt" -> [abort |-> FALSE, val |-> Some(FormatInt(v.b))]
      [] v.t = "Float" -> [abort |-> FALSE, val |-> Some(FormatFloat(v))]
      [] v.t = "Null" -> [abort |-> FALSE, val |-> Some(<<>>)]
      [] OTHER -> [abort |-> FALSE, val |-> None]

\* The helper that borrows the text of an optional String as Option<&str>.
to_string_2(o) == o

\* The to_str! macro: the text of a String itself, to_string of any other
\* value.
to_str(v) == IF v.t = "String" THEN Some(v.str) ELSE to_string(v).val

\* to_int without its Null arm.
to_int_null_fails(v) ==
    CASE v.t = "Int" -> Some(v.i)
      [] v.t = "BigInt" -> (IF FitsI32(v.b) THEN Some(v.b) ELSE None)
      [] v.t = "Float" -> Some(FloatAsI32(v))
      [] v.t = "String" -> ParseI32(v.str)
      [] OTHER -> None

to_int(v) ==
    CASE v.t = "Int" -> Some(v.i)
      [] v.t = "BigInt" -> (IF FitsI32(v.b) THEN Some(v.b) ELSE None)
      [] v.t = "Float" -> Some(FloatAsI32(v))
      [] v.t = "String" -> ParseI32(v.str)
      [] v.t = "Null" -> Some(0)
      [] OTHER -> None

to_bigint(v) ==
    CASE v.t = "Int" -> Some(v.i)
      [] v.t = "BigInt" -> Some(v.b)
      [] v.t = "Float" -> Some(FloatAsI32(v))
      [] v.t = "String" -> ParseBigInt(v.str)
      [] v.t = "Null" -> Some(0)
      [] OTHER -> None

to_float(v) ==
    CASE v.t = "Int" -> Some(VFloat(v.i, 1))
      [] v.t = "BigInt" -> Some(VFloat(v.b, 1))
      [] v.t = "Float" -> Some(v)
      [] v.t = "String" -> ParseF64(v.str)
      [] v.t = "Null" -> Some(VFloat(0, 1))
      [] OTHER -> None

to_bool(v) ==
    CASE v.t = "Bool" -> v.q
      [] v.t = "Int" /\ v.i = 0 -> FALSE
      [] v.t = "Float" -> ~FEq(v, VFloat(0, 1))
      [] v.t = "String" -> v.str # <<>> /\ v.str # <<"0">> /\ v.str # <<"0", ".", "0">>
      [] v.t = "BigInt" -> v.b = 0
      [] v.t = "Null" -> FALSE
      [] OTHER -> TRUE

(***************************************************************************)
(* Arithmetic kernel (vm_arithmetic.rs).  An inner helper yields what it   *)
(* returns (rc), the values it pushes, and whether it panicked instead of  *)
(* returning.                                                              *)
(***************************************************************************)
NoReturn == 0 - 1
Ok(v) == [rc |-> 1, push |-> <<v>>, panic |-> FALSE]
Failure == [rc |-> 0, push |-> <<>>, panic |-> FALSE]
Panic == [rc |-> NoReturn, push |-> <<>>, panic |-> TRUE]

int_to_bigint(i) == VBigInt(i)

\* None stands for the panic of i.to_u64().unwrap().
bigint_to_float(i) == IF 0 <= i /\ i <= MaxU64 THEN Some(VFloat(i, 1)) ELSE None

int_to_float(i) == VFloat(i, 1)

\* add_ints with wrapping_add in place of checked_add and promotion.
add_ints_wrapping(n1, n2) ==
    VInt(((n1 + n2 - MinI32) % 2^I32Bits) + MinI32)

add_ints(n1, n2) ==
    IF FitsI32(n1 + n2) THEN VInt(n1 + n2) ELSE VBigInt(n1 + n2)

\* subtract_ints with its operands exchanged.
subtract_ints_swapped(n1, n2) ==
    IF FitsI32(n1 - n2) THEN VInt(n1 - n2) ELSE VBigInt(n1 - n2)

subtract_ints(n1, n2) ==
    IF FitsI32(n2 - n1) THEN VInt(n2 - n1) ELSE VBigInt(n2 - n1)

multiply_ints(n1, n2) ==
    IF FitsI32(n1 * n2) THEN VInt(n1 * n2) ELSE VBigInt(n1 * n2)

\* checked_div is None for a zero divisor and for MIN / -1; the BigInt
\* division that follows panics on the zero divisor.
divide_ints(n1, n2) ==
    IF n1 # 0 /\ FitsI32(TruncDiv(n2, n1)) THEN Ok(VInt(TruncDiv(n2, n1)))
    ELSE IF n1 = 0 THEN Panic
    ELSE Ok(VBigInt(TruncDiv(n2, n1)))

\* BigInt / BigInt, which panics on a zero divisor.
bigint_div(n2, n1) == IF n1 = 0 THEN Panic ELSE Ok(VBigInt(TruncDiv(n2, n1)))

Both(a, b) == IsSome(a) /\ IsSome(b)

RECURSIVE opcode_add_inner(_, _)
opcode_add_inner(v1, v2) ==
    CASE v1.t = "BigInt" /\ v2.t = "BigInt" -> Ok(VBigInt(v1.b + v2.b))
      [] v1.t = "BigInt" /\ v2.t = "Int" -> opcode_add_inner(v1, int_to_bigint(v2.i))
      [] v1.t = "Int" /\ v2.t = "BigInt" -> opcode_add_inner(int_to_bigint(v1.i), v2)
      [] v1.t = "Int" /\ v2.t = "Int" -> Ok(add_ints(v1.i, v2.i))
      [] v1.t = "Float" /\ v2.t = "Float" -> Ok(FAdd(v1, v2))
      [] v1.t = "BigInt" /\ v2.t = "Float" ->
            (IF IsSome(bigint_to_float(v1.b))
             THEN opcode_add_inner(Unwrap(bigint_to_float(v1.b)), v2) ELSE Panic)
      [] v1.t = "Float" /\ v2.t = "BigInt" ->
            (IF IsSome(bigint_to_float(v2.b))
             THEN opcode_add_inner(v1, Unwrap(bigint_to_float(v2.b))) ELSE Panic)
      [] v1.t = "Int" /\ v2.t = "Float" -> opcode_add_inner(int_to_float(v1.i), v2)
      [] v1.t = "Float" /\ v2.t = "Int" -> opcode_add_inner(v1, int_to_float(v2.i))
      [] OTHER ->
            IF Both(to_int(v1), to_int(v2))
            THEN Ok(add_ints(Unwrap(to_int(v1)), Unwrap(to_int(v2))))
            ELSE IF Both(to_bigint(v1), to_bigint(v2))
            THEN Ok(VBigInt(Unwrap(to_bigint(v1)) + Unwrap(to_bigint(v2))))
            ELSE IF Both(to_float(v1), to_float(v2))
            THEN Ok(FAdd(Unwrap(to_float(v1)), Unwrap(to_float(v2))))
            ELSE Failure

RECURSIVE opcode_subtract_inner(_, _)
opcode_subtract_inner(v1, v2) ==
    CASE v1.t = "BigInt" /\ v2.t = "BigInt" -> Ok(VBigInt(v2.b - v1.b))
      [] v1.t = "BigInt" /\ v2.t = "Int" -> opcode_subtract_inner(v1, int_to_bigint(v2.i))
      [] v1.t = "Int" /\ v2.t = "BigInt" -> opcode_subtract_inner(int_to_bigint(v1.i), v2)
      [] v1.t = "Int" /\ v2.t = "Int" -> Ok(subtract_ints(v1.i, v2.i))
      [] v1.t = "Float" /\ v2.t = "Float" -> Ok(FSub(v2, v1))
      [] v1.t = "BigInt" /\ v2.t = "Float" ->
            (IF IsSome(bigint_to_float(v1.b))
             THEN opcode_subtract_inner(Unwrap(bigint_to_float(v1.b)), v2) ELSE Panic)
      [] v1.t = "Float" /\ v2.t = "BigInt" ->
            (IF IsSome(bigint_to_float(v2.b))
             THEN opcode_subtract_inner(v1, Unwrap(bigint_to_float(v2.b))) ELSE Panic)
      [] v1.t = "Int" /\ v2.t = "Float" -> opcode_subtract_inner(int_to_float(v1.i), v2)
      [] v1.t = "Float" /\ v2.t = "Int" -> opcode_subtract_inner(v1, int_to_float(v2.i))
      [] OTHER ->
            IF Both(to_int(v1), to_int(v2))
            THEN Ok(subtract_ints(Unwrap(to_int(v1)), Unwrap(to_int(v2))))
            ELSE IF Both(to_bigint(v1), to_bigint(v2))
            THEN Ok(VBigInt(Unwrap(to_bigint(v2)) - Unwrap(to_bigint(v1))))
            ELSE IF Both(to_float(v1), to_float(v2))
            THEN Ok(FSub(Unwrap(to_float(v2)), Unwrap(to_float(v1))))
            ELSE Failure

RECURSIVE opcode_multiply_inner(_, _)
opcode_multiply_inner(v1, v2) ==
    CASE v1.t = "BigInt" /\ v2.t = "BigInt" -> Ok(VBigInt(v1.b * v2.b))
      [] v1.t = "BigInt" /\ v2.t = "Int" -> opcode_multiply_inner(v1, int_to_bigint(v2.i))
      [] v1.t = "Int" /\ v2.t = "BigInt" -> opcode_multiply_inner(int_to_bigint(v1.i), v2)
      [] v1.t = "Int" /\ v2.t = "Int" -> Ok(multiply_ints(v1.i, v2.i))
      [] v1.t = "Float" /\ v2.t = "Float" -> Ok(FMul(v1, v2))
      [] v1.t = "BigInt" /\ v2.t = "Float" ->
            (IF IsSome(bigint_to_float(v1.b))
             THEN opcode_multiply_inner(Unwrap(bigint_to_float(v1.b)), v2) ELSE Panic)
      [] v1.t = "Float" /\ v2.t = "BigInt" ->
            (IF IsSome(bigint_to_float(v2.b))
             THEN opcode_multiply_inner(v1, Unwrap(bigint_to_float(v2.b))) ELSE Panic)
      [] v1.t = "Int" /\ v2.t = "Float" -> opcode_multiply_inner(int_to_float(v1.i), v2)
      [] v1.t = "Float" /\ v2.t = "Int" -> opcode_multiply_inner(v1, int_to_float(v2.i))
      [] OTHER ->
            IF Both(to_int(v1), to_int(v2))
            THEN Ok(multiply_ints(Unwrap(to_int(v1)), Unwrap(to_int(v2))))
            ELSE IF Both(to_bigint(v1), to_bigint(v2))
            THEN Ok(VBigInt(Unwrap(to_bigint(v1)) * Unwrap(to_bigint(v2))))
            ELSE IF Both(to_float(v1), to_float(v2))
            THEN Ok(FMul(Unwrap(to_float(v1)), Unwrap(to_float(v2))))
            ELSE Failure

RECURSIVE opcode_divide_inner(_, _)
opcode_divide_inner(v1, v2) ==
    CASE v1.t = "BigInt" /\ v2.t = "BigInt" -> bigint_div(v2.b, v1.b)
      [] v1.t = "BigInt" /\ v2.t = "Int" -> opcode_divide_inner(v1, int_to_bigint(v2.i))
      [] v1.t = "Int" /\ v2.t = "BigInt" -> opcode_divide_inner(int_to_bigint(v1.i), v2)
      [] v1.t = "Int" /\ v2.t = "Int" -> divide_ints(v1.i, v2.i)
      [] v1.t = "Float" /\ v2.t = "Float" -> Ok(FDiv(v2, v1))
      [] v1.t = "BigInt" /\ v2.t = "Float" ->
            (IF IsSome(bigint_to_float(v1.b))
             THEN opcode_divide_inner(Unwrap(bigint_to_float(v1.b)), v2) ELSE Panic)
      [] v1.t = "Float" /\ v2.t = "BigInt" ->
            (IF IsSome(bigint_to_float(v2.b))
             THEN opcode_divide_inner(v1, Unwrap(bigint_to_float(v2.b))) ELSE Panic)
      [] v1.t = "Int" /\ v2.t = "Float" -> opcode_divide_inner(int_to_float(v1.i), v2)
      [] v1.t = "Float" /\ v2.t = "Int" -> opcode_divide_inner(v1, int_to_float(v2.i))
      [] OTHER ->
            IF Both(to_int(v1), to_int(v2))
            THEN divide_ints(Unwrap(to_int(v1)), Unwrap(to_int(v2)))
            ELSE IF Both(to_bigint(v1), to_bigint(v2))
            THEN bigint_div(Unwrap(to_bigint(v2)), Unwrap(to_bigint(v1)))
            ELSE IF Both(to_float(v1), to_float(v2))
            THEN Ok(FDiv(Unwrap(to_float(v2)), Unwrap(to_float(v1))))
            ELSE Failure

\* Codes of the characters the modelled texts use, in byte order.
CharOrder == <<"-", ".", "0", "1", "2", "3", "4", "5", "6", "7", "8", "9",
               "N", "a", "f", "i", "n", "x">>
CharCode(c) == CHOOSE i \in 1..Len(CharOrder) : CharOrder[i] = c

\* &str < &str: lexicographic order of the bytes.
RECURSIVE TextLt(_, _)
TextLt(a, b) ==
    IF b = <<>> THEN FALSE
    ELSE IF a = <<>> THEN TRUE
    ELSE IF a[1] = b[1] THEN TextLt(Tail(a), Tail(b))
    ELSE CharCode(a[1]) < CharCode(b[1])

RECURSIVE opcode_eq_inner(_, _)
opcode_eq_inner(v1, v2) ==
    CASE v1.t = "BigInt" /\ v2.t = "BigInt" -> Ok(VInt(IF v1.b = v2.b THEN 1 ELSE 0))
      [] v1.t = "BigInt" /\ v2.t = "Int" -> opcode_eq_inner(v1, int_to_bigint(v2.i))
      [] v1.t = "Int" /\ v2.t = "BigInt" -> opcode_eq_inner(int_to_bigint(v1.i), v2)
      [] v1.t = "Int" /\ v2.t = "Int" -> Ok(VInt(IF v1.i = v2.i THEN 1 ELSE 0))
      [] v1.t = "BigInt" /\ v2.t = "Float" ->
            (IF IsSome(bigint_to_float(v1.b))
             THEN opcode_eq_inner(Unwrap(bigint_to_float(v1.b)), v2) ELSE Panic)
      [] v1.t = "Float" /\ v2.t = "BigInt" ->
            (IF IsSome(bigint_to_float(v2.b))
             THEN opcode_eq_inner(v1, Unwrap(bigint_to_float(v2.b))) ELSE Panic)
      [] v1.t = "Int" /\ v2.t = "Float" -> opcode_eq_inner(int_to_float(v1.i), v2)
      [] v1.t = "Float" /\ v2.t = "Int" -> opcode_eq_inner(v1, int_to_float(v2.i))
      [] v1.t = "Float" /\ v2.t = "Float" -> Ok(VInt(IF FEq(v1, v2) THEN 1 ELSE 0))
      [] OTHER ->
            IF Both(to_int(v1), to_int(v2))
            THEN Ok(VInt(IF Unwrap(to_int(v1)) = Unwrap(to_int(v2)) THEN 1 ELSE 0))
            ELSE IF Both(to_bigint(v1), to_bigint(v2))
            THEN Ok(VInt(IF Unwrap(to_bigint(v1)) = Unwrap(to_bigint(v2)) THEN 1 ELSE 0))
            ELSE IF Both(to_float(v1), to_float(v2))
            THEN Ok(VInt(IF FEq(Unwrap(to_float(v1)), Unwrap(to_float(v2))) THEN 1 ELSE 0))
            ELSE IF to_string(v1).abort \/ to_string(v2).abort THEN Panic
            ELSE IF Both(to_string_2(to_string(v1).val), to_string_2(to_string(v2).val))
            THEN Ok(VInt(IF Unwrap(to_string_2(to_string(v1).val)) = Unwrap(to_string_2(to_string(v2).val)) THEN 1 ELSE 0))
            ELSE Failure

opcode_gt_inner(v1, v2) ==
    CASE v1.t = "BigInt" /\ v2.t = "BigInt" -> Ok(VInt(IF v2.b > v1.b THEN 1 ELSE 0))
      [] v1.t = "BigInt" /\ v2.t = "Int" -> opcode_eq_inner(v1, int_to_bigint(v2.i))
      [] v1.t = "Int" /\ v2.t = "BigInt" -> opcode_eq_inner(int_to_bigint(v1.i), v2)
      [] v1.t = "Int" /\ v2.t = "Int" -> Ok(VInt(IF v2.i > v1.i THEN 1 ELSE 0))
      [] v1.t = "BigInt" /\ v2.t = "Float" ->
            (IF IsSome(bigint_to_float(v1.b))
             THEN opcode_eq_inner(Unwrap(bigint_to_float(v1.b)), v2) ELSE Panic)
      [] v1.t = "Float" /\ v2.t = "BigInt" ->
            (IF IsSome(bigint_to_float(v2.b))
             THEN opcode_eq_inner(v1, Unwrap(bigint_to_float(v2.b))) ELSE Panic)
      [] v1.t = "Int" /\ v2.t = "Float" -> opcode_eq_inner(int_to_float(v1.i), v2)
      [] v1.t = "Float" /\ v2.t = "Int" -> opcode_eq_inner(v1, int_to_float(v2.i))
      [] v1.t = "Float" /\ v2.t = "Float" -> Ok(VInt(IF FGt(v2, v1) THEN 1 ELSE 0))
      [] OTHER ->
            IF Both(to_int(v1), to_int(v2))
            THEN Ok(VInt(IF Unwrap(to_int(v2)) > Unwrap(to_int(v1)) THEN 1 ELSE 0))
            ELSE IF Both(to_bigint(v1), to_bigint(v2))
            THEN Ok(VInt(IF Unwrap(to_bigint(v2)) > Unwrap(to_bigint(v1)) THEN 1 ELSE 0))
            ELSE IF Both(to_float(v1), to_float(v2))
            THEN Ok(VInt(IF FGt(Unwrap(to_float(v2)), Unwrap(to_float(v1))) THEN 1 ELSE 0))
            ELSE IF to_string(v1).abort \/ to_string(v2).abort THEN Panic
            ELSE IF Both(to_string_2(to_string(v1).val), to_string_2(to_string(v2).val))
            THEN Ok(VInt(IF TextLt(Unwrap(to_string_2(to_string(v1).val)), Unwrap(to_string_2(to_string(v2).val))) THEN 1 ELSE 0))
            ELSE Failure

opcode_lt_inner(v1, v2) ==
    CASE v1.t = "BigInt" /\ v2.t = "BigInt" -> Ok(VInt(IF v2.b < v1.b THEN 1 ELSE 0))
      [] v1.t = "BigInt" /\ v2.t = "Int" -> opcode_eq_inner(v1, int_to_bigint(v2.i))
      [] v1.t = "Int" /\ v2.t = "BigInt" -> opcode_eq_inner(int_to_bigint(v1.i), v2)
      [] v1.t = "Int" /\ v2.t = "Int" -> Ok(VInt(IF v2.i < v1.i THEN 1 ELSE 0))
      [] v1.t = "BigInt" /\ v2.t = "Float" ->
            (IF IsSome(bigint_to_float(v1.b))
             THEN opcode_eq_inner(Unwrap(bigint_to_float(v1.b)), v2) ELSE Panic)
      [] v1.t = "Float" /\ v2.t = "BigInt" ->
            (IF IsSome(bigint_to_float(v2.b))
             THEN opcode_eq_inner(v1, Unwrap(bigint_to_float(v2.b))) ELSE Panic)
      [] v1.t = "Int" /\ v2.t = "Float" -> opcode_eq_inner(int_to_float(v1.i), v2)
      [] v1.t = "Float" /\ v2.t = "Int" -> opcode_eq_inner(v1, int_to_float(v2.i))
      [] v1.t = "Float" /\ v2.t = "Float" -> Ok(VInt(IF FLt(v2, v1) THEN 1 ELSE 0))
      [] OTHER ->
            IF Both(to_int(v1), to_int(v2))
            THEN Ok(VInt(IF Unwrap(to_int(v2)) < Unwrap(to_int(v1)) THEN 1 ELSE 0))
            ELSE IF Both(to_bigint(v1), to_bigint(v2))
            THEN Ok(VInt(IF Unwrap(to_bigint(v2)) < Unwrap(to_bigint(v1)) THEN 1 ELSE 0))
            ELSE IF Both(to_float(v1), to_float(v2))
            THEN Ok(VInt(IF FLt(Unwrap(to_float(v2)), Unwrap(to_float(v1))) THEN 1 ELSE 0))
            ELSE IF to_string(v1).abort \/ to_string(v2).abort THEN Panic
            ELSE IF Both(to_string_2(to_string(v1).val), to_string_2(to_string(v2).val))
            THEN Ok(VInt(IF TextLt(Unwrap(to_string_2(to_string(v2).val)), Unwrap(to_string_2(to_string(v1).val))) THEN 1 ELSE 0))
            ELSE Failure

(***************************************************************************)
(* The constants the modelled programs push.                               *)
(***************************************************************************)
ArithPool ==
    {VInt(MinI32), VInt(0 - 1), VInt(0), VInt(1), VInt(2), VInt(MaxI32),
     VBigInt(0 - 3), VBigInt(0), VBigInt(2), VBigInt(MaxI32 + 1),
     VBigInt(MaxU64 + 1),
     VFloat(0, 1), VFloat(3, 2), VFloat(2, 1), VFloat(0 - 1, 2),
     VNull, VBool(TRUE), VString(<<"0">>), VString(<<"x">>),
     VString(FormatInt(MaxI32)), VString(FormatInt(MaxI32 + 1)),
     VString(<<"1", ".", "5">>)}

BasicPool ==
    {VNull, VBool(TRUE), VBool(FALSE), VInt(0), VInt(1),
     VBigInt(0), VBigInt(MaxI32 + 1), VFloat(0, 1), VFloat(3, 2),
     VString(<<>>), VString(<<"0">>), VString(<<"0", ".", "0">>),
     VString(<<"x">>), VList(<<>>)}

Top(st) == st[Len(st)]
Pop(st, k) == SubSeq(st, 1, Len(st) - k)

CgIdle ==
    UNCHANGED <<pipe, closed, eof, buffer, flags, pc, result, written,
                delivered, lastLine, nones>>

\* A step of the VM alone.
OnlyVm == CgIdle /\ UNCHANGED <<cloneVars, chunkVars, stringVars, genVars>>

(***************************************************************************)
(* Opcodes.  Every action is one dispatch: it records the stack it found   *)
(* in prev and its name in op.                                             *)
(***************************************************************************)
\* CONSTANT: push a constant of the chunk.
opcode_constant(v, depth) ==
    /\ ~panicked
    /\ Len(stack) < depth
    /\ stack' = Append(stack, v)
    /\ prev' = stack
    /\ op' = "constant"
    /\ ret' = 1
    /\ diag' = ""
    /\ UNCHANGED panicked
    /\ OnlyVm

\* The operands of a binary opcode: v1 is popped first (the top), v2 second.
\* Below two values nothing is popped and the operands are never used.
PoppedV1 == IF Len(stack) < 2 THEN VNull ELSE stack[Len(stack)]

PoppedV2 == IF Len(stack) < 2 THEN VNull ELSE stack[Len(stack) - 1]

\* The body shared by opcode_add, opcode_subtract, opcode_multiply,
\* opcode_divide, opcode_eq, opcode_gt and opcode_lt: check the depth, pop
\* v1 then v2, take the inner helper's outcome r.  Operands are constants of
\* ArithPool.
BinaryOpcode(name, r, arityMsg, typeMsg) ==
    /\ ~panicked
    /\ prev' = stack
    /\ op' = name
    /\ IF Len(stack) < 2
       THEN /\ ret' = 0
            /\ diag' = arityMsg
            /\ UNCHANGED <<stack, panicked>>
       ELSE /\ PoppedV1 \in ArithPool
            /\ PoppedV2 \in ArithPool
            /\ stack' = Pop(stack, 2) \o r.push
            /\ ret' = r.rc
            /\ diag' = IF r.rc = 0 THEN typeMsg ELSE ""
            /\ panicked' = r.panic
    /\ OnlyVm

opcode_add ==
    BinaryOpcode("add", opcode_add_inner(PoppedV1, PoppedV2),
                 "+ requires two arguments", "+ requires two numbers")

opcode_subtract ==
    BinaryOpcode("subtract", opcode_subtract_inner(PoppedV1, PoppedV2),
                 "- requires two arguments", "- requires two numbers")

opcode_multiply ==
    BinaryOpcode("multiply", opcode_multiply_inner(PoppedV1, PoppedV2),
                 "* requires two arguments", "* requires two numbers")

opcode_divide ==
    BinaryOpcode("divide", opcode_divide_inner(PoppedV1, PoppedV2),
                 "/ requires two arguments", "/ requires two numbers")

opcode_eq ==
    BinaryOpcode("eq", opcode_eq_inner(PoppedV1, PoppedV2),
                 "= requires two arguments", "= requires two comparable values")

opcode_gt ==
    BinaryOpcode("gt", opcode_gt_inner(PoppedV1, PoppedV2),
                 "> requires two arguments", "> requires two comparable values")

opcode_lt ==
    BinaryOpcode("lt", opcode_lt_inner(PoppedV1, PoppedV2),
                 "< requires two arguments", "< requires two comparable values")

\* An opcode of vm_basics.rs that prints msg and fails below `need` values
\* and otherwise leaves the stack `after`.
BasicOpcode(name, need, msg, after) ==
    /\ ~panicked
    /\ prev' = stack
    /\ op' = name
    /\ IF Len(stack) < need
       THEN /\ ret' = 0
            /\ diag' = msg
            /\ UNCHANGED stack
       ELSE /\ ret' = 1
            /\ diag' = ""
            /\ stack' = after
    /\ UNCHANGED panicked
    /\ OnlyVm

\* opcode_drop without its depth check.
opcode_drop_unchecked ==
    BasicOpcode("drop", 0, "",
                IF stack = <<>> THEN stack ELSE Pop(stack, 1))

opcode_drop == BasicOpcode("drop", 1, "drop requires one argument", Pop(stack, 1))

opcode_clear == BasicOpcode("clear", 0, "", <<>>)

opcode_dup ==
    /\ Len(stack) < ShuffleDepth
    /\ BasicOpcode("dup", 1, "dup requires one argument", Append(stack, Top(stack)))

opcode_over ==
    /\ Len(stack) < ShuffleDepth
    /\ BasicOpcode("over", 2, "over requires two arguments", Append(stack, stack[Len(stack) - 1]))

opcode_swap ==
    BasicOpcode("swap", 2, "swap requires two arguments",
                Pop(stack, 2) \o <<stack[Len(stack)], stack[Len(stack) - 1]>>)

\* opcode_rot turning the other way: the top value becomes the third.
opcode_rot_backward ==
    BasicOpcode("rot", 3, "rot requires three arguments",
                Pop(stack, 3) \o <<stack[Len(stack)], stack[Len(stack) - 2],
                                   stack[Len(stack) - 1]>>)

opcode_rot ==
    BasicOpcode("rot", 3, "rot requires three arguments",
                Pop(stack, 3) \o <<stack[Len(stack) - 1], stack[Len(stack)],
                                   stack[Len(stack) - 2]>>)

opcode_depth ==
    /\ Len(stack) < ShuffleDepth
    /\ BasicOpcode("depth", 0, "", Append(stack, VInt(Len(stack))))

opcode_bool ==
    BasicOpcode("bool", 1, "bool requires one argument",
                Append(Pop(stack, 1), VBool(to_bool(Top(stack)))))

(***************************************************************************)
(* Specifications of the virtual machine.                                  *)
(***************************************************************************)
\* CommandGenerator::new with the given selection flags.
CommandGenerator_new(get_stdout, get_stderr, get_combined) ==
    /\ pipe = <<<<>>, <<>>>>
    /\ closed = <<FALSE, FALSE>>
    /\ eof = <<FALSE, FALSE>>
    /\ buffer = <<<<>>, <<>>>>
    /\ flags = [get_stdout |-> get_stdout, get_stderr |-> get_stderr,
                get_combined |-> get_combined]
    /\ pc = "idle"
    /\ result = [k |-> "nothing"]
    /\ written = <<<<>>, <<>>>>
    /\ delivered = <<<<>>, <<>>>>
    /\ lastLine = <<<<>>, <<>>>>
    /\ nones = 0

InitVm ==
    /\ stack = <<>>
    /\ prev = <<>>
    /\ op = "none"
    /\ ret = 1
    /\ diag = ""
    /\ panicked = FALSE

\* No cell has been allocated and nothing has been cloned.
NoHeap ==
    /\ heap = <<>>
    /\ orig = None
    /\ copy = None
    /\ snap = [heap |-> <<>>, before |-> <<>>]
    /\ side = [via |-> "none", writes |-> 0, clones |-> 0]

\* Chunk::new_standard: no bytes, no points, no constants.
Chunk_new_standard ==
    /\ data = <<>>
    /\ points = <<>>
    /\ constants = <<>>
    /\ aborted = FALSE
    /\ call = [f |-> "new_standard"]
    /\ old = [data |-> <<>>, points |-> <<>>, constants |-> <<>>]
    /\ hist = [clock |-> 0, adds |-> 0, compiled |-> <<>>, sets |-> {},
               values |-> <<>>]

NoTriple == triple = None

\* No generator function has been called; the program runs with empty local
\* and call stacks.
NoGenerator ==
    /\ gen = None
    /\ vm_locals = <<>>
    /\ vm_calls = <<>>
    /\ saved = None
    /\ run = [at |-> "outer", chunk |-> "", ip |-> 0]
    /\ called = <<>>
    /\ shifts = <<>>

Init ==
    /\ InitVm
    /\ CommandGenerator_new(TRUE, FALSE, FALSE)
    /\ NoHeap
    /\ Chunk_new_standard
    /\ NoTriple
    /\ NoGenerator

\* Programs of constants, arithmetic and comparison opcodes.
Next ==
    \/ \E v \in ArithPool : opcode_constant(v, ArithDepth)
    \/ opcode_add
    \/ opcode_subtract
    \/ opcode_multiply
    \/ opcode_divide
    \/ opcode_eq
    \/ opcode_gt
    \/ opcode_lt

Spec == Init /\ [][Next]_vars

\* Programs of constants, stack shuffles and conversions.
NextBasics ==
    \/ \E v \in BasicPool : opcode_constant(v, ShuffleDepth)
    \/ opcode_drop
    \/ opcode_clear
    \/ opcode_dup
    \/ opcode_over
    \/ opcode_swap
    \/ opcode_rot
    \/ opcode_depth
    \/ opcode_bool

SpecBasics == Init /\ [][NextBasics]_vars

(***************************************************************************)
(* Properties of the arithmetic kernel (checked under Spec).               *)
(***************************************************************************)
ArithOps == {"add", "subtract", "multiply", "divide"}
CompareOps == {"eq", "gt", "lt"}
Dispatched2 == Len(prev) >= 2
OperandA == prev[Len(prev) - 1]    \* pushed first
OperandB == prev[Len(prev)]        \* on top
IsNumeric(v) == v.t \in {"Int", "BigInt", "Float"}

\* The exact mathematical result of an integer operation a <o> b.
ExactInt(o, a, b) ==
    CASE o = "add" -> a + b
      [] o = "subtract" -> a - b
      [] o = "multiply" -> a * b
      [] o = "divide" -> TruncDiv(a, b)

\* The exact value of a numeric operand as a fraction.
Exact(v) ==
    CASE v.t = "Int" -> VFloat(v.i, 1)
      [] v.t = "BigInt" -> VFloat(v.b, 1)
      [] v.t = "Float" -> v

\* C1: an arithmetic opcode on two Int operands pushes the exact result,
\* as an Int when it fits in i32 and as a BigInt when it does not.
C1_IntResultExact ==
    (/\ op \in ArithOps
     /\ Dispatched2
     /\ OperandA.t = "Int"
     /\ OperandB.t = "Int"
     /\ ~(op = "divide" /\ OperandB.i = 0))
    => LET e == ExactInt(op, OperandA.i, OperandB.i)
       IN  /\ ~panicked
           /\ ret = 1
           /\ stack = Pop(prev, 2) \o <<IF FitsI32(e) THEN VInt(e) ELSE VBigInt(e)>>

C1_Witness ==
    /\ op = "add"
    /\ prev = <<VInt(MaxI32), VInt(1)>>
    /\ stack = <<VBigInt(MaxI32 + 1)>>
    /\ ret = 1

\* The divisors C2 speaks of: Int 0, BigInt 0, or a value that the
\* fallback coerces to the integer zero.
ZeroDivisor(v) ==
    \/ v = VInt(0)
    \/ v = VBigInt(0)
    \/ (~IsNumeric(v) /\ to_int(v) = Some(0))

\* C2: DIVIDE with a zero divisor returns 0, pushes nothing and leaves the
\* VM running.
C2_DivideByZeroFails ==
    (op = "divide" /\ Dispatched2 /\ ZeroDivisor(OperandB))
    => /\ ~panicked
       /\ ret = 0
       /\ stack = Pop(prev, 2)

\* C3: after a successful arithmetic opcode on Int and BigInt operands a
\* result that fits in i32 is never a BigInt.
C3_BigIntOnlyWhenNeeded ==
    (/\ op \in ArithOps
     /\ Dispatched2
     /\ OperandA.t \in {"Int", "BigInt"}
     /\ OperandB.t \in {"Int", "BigInt"}
     /\ ret = 1)
    => (Top(stack).t = "BigInt" => ~FitsI32(Top(stack).b))

\* What a comparison a <o> b of two numbers is.
Compares(o, a, b) ==
    CASE o = "eq" -> FEq(Exact(a), Exact(b))
      [] o = "gt" -> FGt(Exact(a), Exact(b))
      [] o = "lt" -> FLt(Exact(a), Exact(b))

\* C4: GT, LT and EQ on two numeric operands of any variants push Int 1
\* when the comparison of a (pushed first) with b (on top) holds and Int 0
\* when it does not.
C4_ComparisonResult ==
    (/\ op \in CompareOps
     /\ Dispatched2
     /\ IsNumeric(OperandA)
     /\ IsNumeric(OperandB))
    => /\ ~panicked
       /\ ret = 1
       /\ stack = Pop(prev, 2)
                  \o <<VInt(IF Compares(op, OperandA, OperandB) THEN 1 ELSE 0)>>

\* What a Float operation a <o> b is.
FloatOp(o, a, b) ==
    CASE o = "add" -> FAdd(a, b)
      [] o = "subtract" -> FSub(a, b)
      [] o = "multiply" -> FMul(a, b)
      [] o = "divide" -> FDiv(a, b)

\* C6: an arithmetic opcode or EQ on one BigInt and one Float operand
\* converts the BigInt to a Float, returns 1 and pushes exactly one result.
C6_BigIntFloatResolvesInFloat ==
    (/\ op \in ArithOps \cup {"eq"}
     /\ Dispatched2
     /\ {OperandA.t, OperandB.t} = {"BigInt", "Float"})
    => /\ ~panicked
       /\ ret = 1
       /\ Len(stack) = Len(prev) - 1
       /\ IF op = "eq"
          THEN Top(stack) = VInt(IF FEq(Exact(OperandA), Exact(OperandB))
                                 THEN 1 ELSE 0)
          ELSE Top(stack) = FloatOp(op, Exact(OperandA), Exact(OperandB))

(***************************************************************************)
(* Properties of the basic opcodes (checked under SpecBasics).             *)
(***************************************************************************)
\* The values the specification calls false.
Falsy ==
    {VBool(FALSE), VInt(0), VFloat(0, 1), VBigInt(0), VNull, VString(<<>>),
     VString(<<"0">>), VString(<<"0", ".", "0">>)}

\* C5: BOOL replaces the top value by Bool(false) exactly when it is one of
\* the false values, and by Bool(true) otherwise.
C5_Truthiness ==
    (op = "bool" /\ Len(prev) >= 1)
    => stack = Append(Pop(prev, 1), VBool(Top(prev) \notin Falsy))

\* The least depth at which a stack-shuffle opcode succeeds.
MinDepth(o) ==
    CASE o \in {"drop", "dup"} -> 1
      [] o \in {"over", "swap"} -> 2
      [] o = "rot" -> 3
      [] o \in {"clear", "depth"} -> 0

ShuffleOps == {"drop", "dup", "over", "swap", "rot", "clear", "depth"}

\* C10: below its minimum depth a stack-shuffle opcode prints an error,
\* returns 0 and leaves the stack as it was; CLEAR and DEPTH always succeed.
C10_MinimumDepth ==
    op \in ShuffleOps
    => /\ Len(prev) < MinDepth(op) => (ret = 0 /\ diag # "" /\ stack = prev)
       /\ op \in {"clear", "depth"} => ret = 1

C10_Witness ==
    \/ /\ op = "rot"
       /\ Len(prev) = 2
       /\ ret = 0
       /\ stack = prev
    \/ /\ op = "drop"
       /\ prev = <<>>
       /\ ret = 0
       /\ stack = <<>>

(***************************************************************************)
(* CommandGenerator (chunk.rs).  Stream 1 is the child's standard output   *)
(* and stream 2 its standard error.  The child writes bytes into a pipe    *)
(* and closes it; the reader moves bytes from the pipe into its buffer.    *)
(* Bytes are "a" (any byte but a newline) and "nl" (the newline).          *)
(***************************************************************************)
Streams == {1, 2}
Bytes == {"a", "nl"}

VmIdle == UNCHANGED <<stack, prev, op, ret, diag, panicked>>

\* A step of the child process or of the CommandGenerator alone.
OnlyCg == VmIdle /\ UNCHANGED <<cloneVars, chunkVars, stringVars, genVars>>

\* The child writes one byte to a stream it has not closed.
ChildWrite(s, c) ==
    /\ ~closed[s]
    /\ Len(written[s]) < MaxBytes
    /\ pipe' = [pipe EXCEPT ![s] = Append(@, c)]
    /\ written' = [written EXCEPT ![s] = Append(@, c)]
    /\ UNCHANGED <<closed, eof, buffer, flags, pc, result, delivered,
                   lastLine, nones>>
    /\ OnlyCg

\* The child closes a stream (or exits).
ChildClose(s) ==
    /\ ~closed[s]
    /\ closed' = [closed EXCEPT ![s] = TRUE]
    /\ UNCHANGED <<pipe, eof, buffer, flags, pc, result, written, delivered,
                   lastLine, nones>>
    /\ OnlyCg

\* buffer.iter().position(|&r| r == b'\n'), 1-based; 0 when there is none.
position(b) ==
    IF \E i \in 1..Len(b) : b[i] = "nl"
    THEN CHOOSE i \in 1..Len(b) : b[i] = "nl" /\ \A j \in 1..(i - 1) : b[j] # "nl"
    ELSE 0

\* NonBlockingReader::read_available: append what the pipe holds to the
\* buffer; the reader is at EOF iff the pipe was found closed.
read_available(s) == [buf |-> buffer[s] \o pipe[s], eofs |-> closed[s]]

\* stdout_read_line_nb / stderr_read_line_nb on stream s: the line it
\* returns, and the buffer and EOF flag it leaves.
read_line_nb(s) ==
    LET doRead == position(buffer[s]) = 0 /\ ~eof[s]
        buf == IF doRead THEN read_available(s).buf ELSE buffer[s]
        eofs == IF doRead THEN read_available(s).eofs ELSE eof[s]
        n == position(buf)
    IN  IF n > 0
        THEN [line |-> Some(SubSeq(buf, 1, n)),
              buf |-> SubSeq(buf, n + 1, Len(buf)), eofs |-> eofs, read |-> doRead]
        ELSE IF buf # <<>> /\ eofs
        THEN [line |-> Some(buf), buf |-> <<>>, eofs |-> eofs, read |-> doRead]
        ELSE [line |-> None, buf |-> buf, eofs |-> eofs, read |-> doRead]

stdout_read_line_nb == read_line_nb(1)
stderr_read_line_nb == read_line_nb(2)

\* The effect of a read_line_nb call with outcome r on the reader of s.
Reader(s, r) ==
    /\ buffer' = [buffer EXCEPT ![s] = r.buf]
    /\ eof' = [eof EXCEPT ![s] = r.eofs]
    /\ pipe' = IF r.read THEN [pipe EXCEPT ![s] = <<>>] ELSE pipe

\* The call returns a line of stream s.
ReturnLine(s, line, val) ==
    /\ pc' = "idle"
    /\ result' = val
    /\ delivered' = [delivered EXCEPT ![s] = @ \o line]
    /\ lastLine' = [lastLine EXCEPT ![s] = line]
    /\ UNCHANGED nones

\* The call returns None.
ReturnNone ==
    /\ pc' = "idle"
    /\ result' = [k |-> "none"]
    /\ nones' = IF nones < NonesCap THEN nones + 1 ELSE nones
    /\ UNCHANGED <<delivered, lastLine>>

\* The call goes on at `to`.
Goto(to) ==
    /\ pc' = to
    /\ UNCHANGED <<result, delivered, lastLine, nones>>

\* The exhaustion tests of read_line, taken with the EOF flag e of the
\* stream that was just read.
\* The first exhaustion test without its look at standard error.
read_line_stdout_done_alone(e) == e

read_line_stdout_done(e) == e /\ (~flags.get_stderr \/ eof[2])
read_line_stderr_done(e) == e /\ (~flags.get_stdout \/ eof[1])

\* The VM starts a read: read_line_combined on a combined generator,
\* read_line on any other.
Call ==
    /\ pc = "idle"
    /\ pc' = IF flags.get_combined THEN "combined_stdout" ELSE "stdout"
    /\ UNCHANGED <<pipe, closed, eof, buffer, flags, result, written,
                   delivered, lastLine, nones>>
    /\ OnlyCg

\* read_line, first half of the loop body.
read_line_stdout ==
    /\ pc = "stdout"
    /\ IF flags.get_stdout
       THEN LET r == stdout_read_line_nb
            IN  /\ Reader(1, r)
                /\ IF IsSome(r.line)
                   THEN ReturnLine(1, Unwrap(r.line),
                                   [k |-> "line", line |-> Unwrap(r.line)])
                   ELSE IF read_line_stdout_done(r.eofs)
                   THEN ReturnNone
                   ELSE Goto("stderr")
       ELSE /\ Goto("stderr")
            /\ UNCHANGED <<buffer, eof, pipe>>
    /\ UNCHANGED <<closed, flags, written>>
    /\ OnlyCg

\* read_line, second half of the loop body.
read_line_stderr ==
    /\ pc = "stderr"
    /\ IF flags.get_stderr
       THEN LET r == stderr_read_line_nb
            IN  /\ Reader(2, r)
                /\ IF IsSome(r.line)
                   THEN ReturnLine(2, Unwrap(r.line),
                                   [k |-> "line", line |-> Unwrap(r.line)])
                   ELSE IF read_line_stderr_done(r.eofs)
                   THEN ReturnNone
                   ELSE Goto("stdout")
       ELSE /\ Goto("stdout")
            /\ UNCHANGED <<buffer, eof, pipe>>
    /\ UNCHANGED <<closed, flags, written>>
    /\ OnlyCg

\* read_line_combined, first half of the loop body.
read_line_combined_stdout ==
    /\ pc = "combined_stdout"
    /\ LET r == stdout_read_line_nb
       IN  /\ Reader(1, r)
           /\ IF IsSome(r.line)
              THEN ReturnLine(1, Unwrap(r.line),
                              [k |-> "pair", tag |-> 1, line |-> Unwrap(r.line)])
              ELSE IF r.eofs /\ eof[2]
              THEN ReturnNone
              ELSE Goto("combined_stderr")
    /\ UNCHANGED <<closed, flags, written>>
    /\ OnlyCg

\* read_line_combined, second half of the loop body.
read_line_combined_stderr ==
    /\ pc = "combined_stderr"
    /\ LET r == stderr_read_line_nb
       IN  /\ Reader(2, r)
           /\ IF IsSome(r.line)
              THEN ReturnLine(2, Unwrap(r.line),
                              [k |-> "pair", tag |-> 2, line |-> Unwrap(r.line)])
              ELSE IF r.eofs /\ eof[1]
              THEN ReturnNone
              ELSE Goto("combined_stdout")
    /\ UNCHANGED <<closed, flags, written>>
    /\ OnlyCg

\* The steps of a running read.
ReaderStep ==
    \/ read_line_stdout
    \/ read_line_stderr
    \/ read_line_combined_stdout
    \/ read_line_combined_stderr

\* A generator built with any selection flags, no byte written yet.
InitCommand ==
    /\ InitVm
    /\ \E o \in BOOLEAN, e \in BOOLEAN, c \in BOOLEAN :
           CommandGenerator_new(o, e, c)
    /\ NoHeap
    /\ Chunk_new_standard
    /\ NoTriple
    /\ NoGenerator

NextCommand ==
    \/ \E s \in Streams, c \in Bytes : ChildWrite(s, c)
    \/ \E s \in Streams : ChildClose(s)
    \/ Call
    \/ read_line_stdout
    \/ read_line_stderr
    \/ read_line_combined_stdout
    \/ read_line_combined_stderr

SpecCommand == InitCommand /\ [][NextCommand]_vars

\* The reading thread keeps running: a started read takes its next step.
SpecCommandFair == SpecCommand /\ WF_vars(ReaderStep)

(***************************************************************************)
(* Properties of the CommandGenerator (checked under SpecCommand and       *)
(* SpecCommandFair).                                                       *)
(***************************************************************************)
\* The streams a read of this generator looks at.
Selected(s) ==
    \/ flags.get_combined
    \/ (s = 1 /\ flags.get_stdout)
    \/ (s = 2 /\ flags.get_stderr)

BothSelected == Selected(1) /\ Selected(2)

\* C7: with both streams selected a read returns None only when both
\* readers are at EOF, a reader at EOF stays at EOF, and once a read has
\* returned None every later read returns None.
C7_ExhaustionIsSticky ==
    /\ [](BothSelected =>
            /\ result.k = "none" => (eof[1] /\ eof[2] /\ closed[1] /\ closed[2])
            /\ nones > 0 => result.k = "none")
    /\ [][\A s \in Streams : eof[s] => eof'[s]]_vars

C7_Witness ==
    /\ BothSelected
    /\ nones = 2
    /\ result.k = "none"
    /\ pc = "idle"
    /\ delivered[1] # <<>>
    /\ delivered[2] # <<>>

\* The bytes of w after its last newline.
TailAfterNewline(w) ==
    LET nls == {i \in 1..Len(w) : w[i] = "nl"}
        last == IF nls = {} THEN 0 ELSE CHOOSE i \in nls : \A j \in nls : j <= i
    IN  SubSeq(w, last + 1, Len(w))

\* C8: when a read reports exhaustion, every selected stream that ended
\* with bytes after its last newline has had those bytes returned as its
\* final line.
C8_PartialLastLineFlushed ==
    \A s \in Streams :
        (/\ nones > 0
         /\ Selected(s)
         /\ closed[s]
         /\ TailAfterNewline(written[s]) # <<>>)
        => lastLine[s] = TailAfterNewline(written[s])

\* A newline of stream s is waiting in the pipe or in the buffer.
NewlineWaiting(s) == position(buffer[s] \o pipe[s]) > 0

\* C9: a running read returns once the child has written a newline on a
\* selected stream or has closed both streams.
C9_BlockedReadReturns ==
    (/\ pc # "idle"
     /\ \/ closed[1] /\ closed[2]
        \/ \E s \in Streams : Selected(s) /\ NewlineWaiting(s))
    ~> (pc = "idle")

(***************************************************************************)
(* Failure, operand order and coercion of the arithmetic kernel (checked   *)
(* under Spec).                                                            *)
(***************************************************************************)
\* No domain converts both operands: to_int, to_bigint and to_float, and
\* for a comparison the text of the operands as well.
AllCoercionsFail(o, a, b) ==
    /\ ~Both(to_int(a), to_int(b))
    /\ ~Both(to_bigint(a), to_bigint(b))
    /\ ~Both(to_float(a), to_float(b))
    /\ o \in CompareOps => ~Both(to_str(a), to_str(b))

\* C11: an arithmetic or comparison opcode on fewer than two values returns
\* 0 and leaves the stack unchanged; on two operands that no coercion
\* attempt converts it returns 0 and pushes no result.
C11_FailurePushesNothing ==
    /\ (op \in ArithOps \cup CompareOps /\ ~Dispatched2)
       => (~panicked /\ ret = 0 /\ stack = prev)
    /\ (/\ op \in ArithOps \cup CompareOps
        /\ Dispatched2
        /\ AllCoercionsFail(op, OperandA, OperandB))
       => (~panicked /\ ret = 0 /\ stack = Pop(prev, 2))

\* An integer result in the variant the kernel gives it.
Promoted(e) == IF FitsI32(e) THEN VInt(e) ELSE VBigInt(e)

BothInt == Dispatched2 /\ OperandA.t = "Int" /\ OperandB.t = "Int"
BothFloat == Dispatched2 /\ OperandA.t = "Float" /\ OperandB.t = "Float"

\* SUBTRACT on [.., a, b] pushes a - b, and DIVIDE on two Floats a / b.
OperandOrder ==
    /\ (op = "subtract" /\ BothInt)
       => (ret = 1 /\ stack = Pop(prev, 2) \o <<Promoted(OperandA.i - OperandB.i)>>)
    /\ (op = "subtract" /\ BothFloat)
       => (ret = 1 /\ stack = Pop(prev, 2) \o <<FSub(OperandA, OperandB)>>)
    /\ (op = "divide" /\ BothFloat)
       => (ret = 1 /\ stack = Pop(prev, 2) \o <<FDiv(OperandA, OperandB)>>)

\* C12 as stated: SUBTRACT pushes a - b and DIVIDE a / b, and DIVIDE on two
\* Ints (divisor not zero) pushes the quotient truncated toward zero as an
\* Int.
C12_DivideIntIsInt ==
    /\ OperandOrder
    /\ (op = "divide" /\ BothInt /\ OperandB.i # 0)
       => (ret = 1 /\ stack = Pop(prev, 2) \o <<VInt(TruncDiv(OperandA.i, OperandB.i))>>)

\* C12 amended: SUBTRACT pushes a - b and DIVIDE a / b, and DIVIDE on two
\* Ints (divisor not zero) pushes the quotient truncated toward zero, as an
\* Int when it fits in i32 and as a BigInt when it does not (MIN / -1).
C12_OperandOrder ==
    /\ OperandOrder
    /\ (op = "divide" /\ BothInt /\ OperandB.i # 0)
       => (ret = 1 /\ stack = Pop(prev, 2) \o <<Promoted(TruncDiv(OperandA.i, OperandB.i))>>)

C12_Witness ==
    /\ op = "divide"
    /\ prev = <<VInt(0 - 1), VInt(2)>>
    /\ stack = <<VInt(0)>>
    /\ ret = 1

\* The first domain in which both operands convert.
Domain(a, b) ==
    IF Both(to_int(a), to_int(b)) THEN "int"
    ELSE IF Both(to_bigint(a), to_bigint(b)) THEN "bigint"
    ELSE IF Both(to_float(a), to_float(b)) THEN "float"
    ELSE "none"

\* Null and the Strings that hold a decimal integer, and the integer they
\* stand for.
IsDecimal(v) ==
    \/ v.t = "Null"
    \/ (/\ v.t = "String"
        /\ v.str # <<>>
        /\ IF v.str[1] = "-"
           THEN Len(v.str) > 1 /\ AllDigits(Tail(v.str))
           ELSE AllDigits(v.str))

DecimalOf(v) ==
    IF v.t = "Null" THEN 0
    ELSE IF v.str[1] = "-" THEN 0 - DecVal(Tail(v.str))
    ELSE DecVal(v.str)

\* The fallback arm is taken: the operands are not two numeric variants.
Fallback == Dispatched2 /\ ~(IsNumeric(OperandA) /\ IsNumeric(OperandB))

\* C13: on operands that are not two numeric variants an arithmetic opcode
\* computes in the first of Int, BigInt, Float in which both operands
\* convert; decimal Strings within i32 (and Null as 0) give an Int, or a
\* BigInt on overflow, and a decimal String outside i32 gives a BigInt.
\* Zero divisors in the integer domains are left to C2.
C13_CoercionOrder ==
    LET a == OperandA
        b == OperandB
        d == Domain(a, b)
    IN  /\ (/\ op \in ArithOps
            /\ Fallback
            /\ d # "none"
            /\ ~(op = "divide" /\ d = "int" /\ Unwrap(to_int(b)) = 0)
            /\ ~(op = "divide" /\ d = "bigint" /\ Unwrap(to_bigint(b)) = 0))
           => /\ ~panicked
              /\ ret = 1
              /\ stack = Pop(prev, 2) \o
                   <<CASE d = "int" ->
                            Promoted(ExactInt(op, Unwrap(to_int(a)), Unwrap(to_int(b))))
                       [] d = "bigint" ->
                            VBigInt(ExactInt(op, Unwrap(to_bigint(a)), Unwrap(to_bigint(b))))
                       [] d = "float" ->
                            FloatOp(op, Unwrap(to_float(a)), Unwrap(to_float(b)))>>
        /\ (/\ op \in ArithOps
            /\ Fallback
            /\ IsDecimal(a)
            /\ IsDecimal(b)
            /\ ~(op = "divide" /\ DecimalOf(b) = 0))
           => /\ ret = 1
              /\ stack = Pop(prev, 2) \o
                   <<IF FitsI32(DecimalOf(a)) /\ FitsI32(DecimalOf(b))
                     THEN Promoted(ExactInt(op, DecimalOf(a), DecimalOf(b)))
                     ELSE VBigInt(ExactInt(op, DecimalOf(a), DecimalOf(b)))>>

C13_Witness ==
    /\ op = "add"
    /\ prev = <<VString(FormatInt(MaxI32 + 1)), VNull>>
    /\ stack = <<VBigInt(MaxI32 + 1)>>
    /\ ret = 1

(***************************************************************************)
(* Containers and generators (chunk.rs).  A container value holds the      *)
(* address of its Rc<RefCell<..>> cell on the heap; Value::clone copies    *)
(* the address, Value::value_clone builds new cells.                       *)
(***************************************************************************)
ListAt(a) == [t |-> "List", at |-> a]
HashAt(a) == [t |-> "Hash", at |-> a]
SetAt(a) == [t |-> "Set", at |-> a]
GeneratorAt(a) == [t |-> "Generator", at |-> a]

\* VecDeque<Value>, IndexMap<String, Value> (entries in insertion order),
\* Vec<Value> (a local-variable stack) and GeneratorObject.
ListCell(items) == [c |-> "List", items |-> items]
HashCell(entries) == [c |-> "Hash", entries |-> entries]
SetCell(entries) == [c |-> "Set", entries |-> entries]
VecCell(items) == [c |-> "Vec", items |-> items]
\* The constructor, had it dropped the arguments of the call.
GeneratorObject_new_without_args(local_vars_stack, index, chunk, call_stack_chunks, gen_args) ==
    [c |-> "Generator", local_vars_stack |-> local_vars_stack, index |-> index,
     chunk |-> chunk, call_stack_chunks |-> call_stack_chunks,
     gen_args |-> <<>>]

GeneratorObject_new(local_vars_stack, index, chunk, call_stack_chunks, gen_args) ==
    [c |-> "Generator", local_vars_stack |-> local_vars_stack, index |-> index,
     chunk |-> chunk, call_stack_chunks |-> call_stack_chunks,
     gen_args |-> gen_args]

Entry(k, v) == [k |-> k, v |-> v]

\* The value refers to a cell.
IsRef(v) == v.t \in {"List", "Hash", "Set", "Generator"} /\ "at" \in DOMAIN v

\* Rc::new(RefCell::new(cell)): the heap with the cell, whose address is
\* the new length.
Alloc(h, cell) == Append(h, cell)

\* Value::value_clone on v with heap h: the clone and the heap it leaves.
RECURSIVE value_clone(_, _)
RECURSIVE clone_values(_, _)
clone_values(vs, h) ==
    IF vs = <<>> THEN [vals |-> <<>>, heap |-> h]
    ELSE LET first == value_clone(Head(vs), h)
             rest == clone_values(Tail(vs), first.heap)
         IN  [vals |-> <<first.val>> \o rest.vals, heap |-> rest.heap]

value_clone(v, h) ==
    IF ~IsRef(v) THEN [val |-> v, heap |-> h]
    ELSE LET cell == h[v.at]
         IN  CASE v.t = "List" ->
                    LET r == clone_values(cell.items, h)
                        h2 == Alloc(r.heap, ListCell(r.vals))
                    IN  [val |-> ListAt(Len(h2)), heap |-> h2]
               [] v.t \in {"Hash", "Set"} ->
                    LET es == cell.entries
                        r == clone_values([i \in 1..Len(es) |-> es[i].v], h)
                        h2 == Alloc(r.heap,
                                    [c |-> cell.c,
                                     entries |-> [i \in 1..Len(es) |->
                                                    Entry(es[i].k, r.vals[i])]])
                    IN  [val |-> [t |-> v.t, at |-> Len(h2)], heap |-> h2]
               [] v.t = "Generator" ->
                    LET h2 == Alloc(h, VecCell(h[cell.local_vars_stack].items))
                        h3 == Alloc(h2, GeneratorObject_new(Len(h2), cell.index,
                                            cell.chunk, cell.call_stack_chunks,
                                            cell.gen_args))
                    IN  [val |-> GeneratorAt(Len(h3)), heap |-> h3]

\* The cells a value reaches.
RECURSIVE Reach(_, _)
RECURSIVE ReachAll(_, _)
ReachAll(vs, h) == UNION {Reach(vs[i], h) : i \in 1..Len(vs)}

Reach(v, h) ==
    IF ~IsRef(v) THEN {}
    ELSE LET cell == h[v.at]
         IN  {v.at} \cup
             CASE cell.c = "List" -> ReachAll(cell.items, h)
               [] cell.c \in {"Hash", "Set"} ->
                    ReachAll([i \in 1..Len(cell.entries) |-> cell.entries[i].v], h)
               [] cell.c = "Generator" ->
                    {cell.local_vars_stack}
                    \cup ReachAll(h[cell.local_vars_stack].items, h)
                    \cup ReachAll(cell.gen_args, h)

\* The contents of a value at every level, with the addresses left out.
RECURSIVE Deep(_, _)
RECURSIVE DeepAll(_, _)
DeepAll(vs, h) == [i \in 1..Len(vs) |-> Deep(vs[i], h)]

Deep(v, h) ==
    IF ~IsRef(v) THEN v
    ELSE LET cell == h[v.at]
         IN  CASE cell.c = "List" -> [t |-> "List", items |-> DeepAll(cell.items, h)]
               [] cell.c \in {"Hash", "Set"} ->
                    [t |-> cell.c,
                     entries |-> [i \in 1..Len(cell.entries) |->
                                    Entry(cell.entries[i].k,
                                          Deep(cell.entries[i].v, h))]]
               [] cell.c = "Generator" ->
                    [t |-> "Generator", index |-> cell.index, chunk |-> cell.chunk,
                     call_stack_chunks |-> cell.call_stack_chunks,
                     gen_args |-> DeepAll(cell.gen_args, h),
                     locals |-> DeepAll(h[cell.local_vars_stack].items, h)]

\* CLONE that pushes the value it popped, as DUP would.
opcode_clone_shared ==
    /\ ~panicked
    /\ side.clones < MaxClones
    /\ Len(stack) >= 1
    /\ prev' = stack
    /\ op' = "clone"
    /\ ret' = 1
    /\ diag' = ""
    /\ orig' = Some(Top(stack))
    /\ copy' = Some(Top(stack))
    /\ snap' = [heap |-> heap, before |-> heap]
    /\ side' = [via |-> "none", writes |-> side.writes, clones |-> side.clones + 1]
    /\ UNCHANGED <<stack, heap, panicked>>
    /\ UNCHANGED <<cgVars, chunkVars, stringVars, genVars>>

\* CLONE: pop a value and push its deep clone.
opcode_clone ==
    /\ ~panicked
    /\ side.clones < MaxClones
    /\ prev' = stack
    /\ op' = "clone"
    /\ IF Len(stack) < 1
       THEN /\ ret' = 0
            /\ diag' = "clone requires one argument"
            /\ UNCHANGED <<stack, heap, orig, copy, snap, side>>
       ELSE LET r == value_clone(Top(stack), heap)
            IN  /\ stack' = Append(Pop(stack, 1), r.val)
                /\ heap' = r.heap
                /\ ret' = 1
                /\ diag' = ""
                /\ orig' = Some(Top(stack))
                /\ copy' = Some(r.val)
                /\ snap' = [heap |-> r.heap, before |-> heap]
                /\ side' = [via |-> "none", writes |-> side.writes,
                             clones |-> side.clones + 1]
    /\ UNCHANGED panicked
    /\ UNCHANGED <<cgVars, chunkVars, stringVars, genVars>>

\* The writes a holder of a cell can make through borrow_mut(): push, pop
\* or replace an element of a list, insert, remove or replace an entry of a
\* hash or set, write a local slot, advance a generator.
Written(cell) ==
    CASE cell.c \in {"List", "Vec"} ->
            {[cell EXCEPT !.items = Append(@, VInt(1))] : x \in
                 {y \in {1} : cell.c = "List" /\ Len(cell.items) < MaxItems}}
            \cup {[cell EXCEPT !.items = SubSeq(@, 1, Len(@) - 1)] : x \in
                 {y \in {1} : cell.c = "List" /\ Len(cell.items) > 0}}
            \cup {[cell EXCEPT !.items[i] = VNull] : i \in 1..Len(cell.items)}
      [] cell.c \in {"Hash", "Set"} ->
            {[cell EXCEPT !.entries = Append(@, Entry("z", VInt(1)))] : x \in
                 {y \in {1} : \A i \in 1..Len(cell.entries) : cell.entries[i].k # "z"}}
            \cup {[cell EXCEPT !.entries = SubSeq(@, 1, Len(@) - 1)] : x \in
                 {y \in {1} : Len(cell.entries) > 0}}
            \cup {[cell EXCEPT !.entries[i].v = VNull] : i \in 1..Len(cell.entries)}
      [] cell.c = "Generator" ->
            {[cell EXCEPT !.index = @ + 1]}

\* Which of the last CLONE's two values a write went through.
Via(w) ==
    [via |-> IF side.via \in {"none", w} THEN w ELSE "both",
     writes |-> side.writes + 1, clones |-> side.clones]

\* A holder of the clone (w = "copy") or of the original (w = "orig")
\* writes to a cell it reaches; the value it writes through is on the stack.
borrow_mut(w, a, cell) ==
    /\ ~panicked
    /\ IsSome(orig)
    /\ side.writes < MaxWrites
    /\ \E i \in 1..Len(stack) : stack[i] = Unwrap(IF w = "copy" THEN copy ELSE orig)
    /\ a \in Reach(Unwrap(IF w = "copy" THEN copy ELSE orig), heap)
    /\ cell \in Written(heap[a])
    /\ cell # heap[a]
    /\ heap' = [heap EXCEPT ![a] = cell]
    /\ side' = Via(w)
    /\ UNCHANGED <<orig, copy, snap>>
    /\ UNCHANGED <<vmVars, cgVars, chunkVars, stringVars, genVars>>

\* The values a program has built before it clones: each a heap and the
\* value on top of the stack.
Built ==
    {[heap |-> <<ListCell(<<VInt(1), VString(<<"x">>)>>)>>, root |-> ListAt(1)],
     [heap |-> <<ListCell(<<VInt(2)>>), ListCell(<<VInt(1), ListAt(1)>>)>>,
      root |-> ListAt(2)],
     [heap |-> <<ListCell(<<VInt(1)>>), SetCell(<<Entry("1", VInt(1))>>),
                 HashCell(<<Entry("a", ListAt(1)), Entry("b", SetAt(2))>>)>>,
      root |-> HashAt(3)],
     [heap |-> <<ListCell(<<>>), HashCell(<<Entry("a", ListAt(1))>>),
                 ListCell(<<HashAt(2), VNull>>)>>,
      root |-> ListAt(3)],
     [heap |-> <<ListCell(<<VInt(1)>>), ListCell(<<ListAt(1), ListAt(1)>>)>>,
      root |-> ListAt(2)],
     [heap |-> <<ListCell(<<VInt(1)>>), SetCell(<<Entry("[1]", ListAt(1))>>)>>,
      root |-> SetAt(2)],
     [heap |-> <<ListCell(<<VInt(1)>>), VecCell(<<VInt(2), ListAt(1)>>),
                 GeneratorObject_new(2, 0, "f", <<>>, <<VInt(1)>>)>>,
      root |-> GeneratorAt(3)],
     [heap |-> <<VecCell(<<VInt(2), VNull>>),
                 GeneratorObject_new(1, 1, "f", <<<<"g", 2>>>>, <<>>)>>,
      root |-> GeneratorAt(2)],
     [heap |-> <<>>, root |-> VInt(1)]}

InitClone ==
    /\ prev = <<>>
    /\ op = "none"
    /\ ret = 1
    /\ diag = ""
    /\ panicked = FALSE
    /\ CommandGenerator_new(TRUE, FALSE, FALSE)
    /\ Chunk_new_standard
    /\ NoTriple
    /\ NoGenerator
    /\ \E b \in Built :
           /\ heap = b.heap
           /\ stack = <<b.root>>
    /\ orig = None
    /\ copy = None
    /\ snap = [heap |-> <<>>, before |-> <<>>]
    /\ side = [via |-> "none", writes |-> 0, clones |-> 0]

\* Programs that duplicate and clone a value and write through both.
NextClone ==
    \/ opcode_dup
    \/ opcode_clone
    \/ \E w \in {"copy", "orig"}, a \in 1..Len(heap) :
           \E cell \in Written(heap[a]) : borrow_mut(w, a, cell)

SpecClone == InitClone /\ [][NextClone]_vars

(***************************************************************************)
(* Properties of CLONE (checked under SpecClone).                          *)
(***************************************************************************)
IsContainer(v) == IsRef(v) /\ v.t \in {"List", "Hash", "Set"}

\* The value is built from List, Hash and Set containers only.
ContainersOnly(v, h) ==
    IsContainer(v) /\ \A a \in Reach(v, h) : h[a].c \in {"List", "Hash", "Set"}

\* The last CLONE allocated every cell its result reaches and left the
\* cells that existed as they were.
FreshlyAllocated ==
    /\ \A a \in Reach(Unwrap(copy), snap.heap) : a > Len(snap.before)
    /\ SubSeq(snap.heap, 1, Len(snap.before)) = snap.before

\* C14: the clone of a value built from lists, hashes and sets has equal
\* contents at every level, reaches only cells the clone allocated, and
\* writes through the clone leave the contents of the original unchanged,
\* as writes through the original leave the clone's.
C14_DeepCloneIndependent ==
    (IsSome(orig) /\ ContainersOnly(Unwrap(orig), snap.heap))
    => /\ Deep(Unwrap(copy), snap.heap) = Deep(Unwrap(orig), snap.heap)
       /\ FreshlyAllocated
       /\ side.via = "copy"
          => Deep(Unwrap(orig), heap) = Deep(Unwrap(orig), snap.heap)
       /\ side.via = "orig"
          => Deep(Unwrap(copy), heap) = Deep(Unwrap(copy), snap.heap)

C14_Witness ==
    /\ IsSome(orig)
    /\ Unwrap(orig) = ListAt(3)
    /\ snap.before = <<ListCell(<<>>), HashCell(<<Entry("a", ListAt(1))>>),
                       ListCell(<<HashAt(2), VNull>>)>>
    /\ side.via = "copy"
    /\ side.writes = 2
    /\ Deep(Unwrap(copy), heap) # Deep(Unwrap(copy), snap.heap)
    /\ Deep(Unwrap(orig), heap) = Deep(Unwrap(orig), snap.heap)

\* A generator's instruction index and the contents of its local slots.
GeneratorState(v, h) ==
    [index |-> h[v.at].index,
     locals |-> DeepAll(h[h[v.at].local_vars_stack].items, h)]

\* C15: the clone of a generator has the same index, chunk, call-stack
\* chunks and gen_args and its own local-variable stack with the same
\* slots; advancing the clone or writing to its local slots, or to a list
\* or hash held in one, leaves the original's index and local-variable
\* state unchanged, and the reverse.
C15_GeneratorCloneIndependent ==
    (IsSome(orig) /\ Unwrap(orig).t = "Generator")
    => LET g == snap.heap[Unwrap(orig).at]
           c == snap.heap[Unwrap(copy).at]
       IN  /\ c.index = g.index
           /\ c.chunk = g.chunk
           /\ c.call_stack_chunks = g.call_stack_chunks
           /\ c.gen_args = g.gen_args
           /\ c.local_vars_stack > Len(snap.before)
           /\ snap.heap[c.local_vars_stack] = snap.heap[g.local_vars_stack]
           /\ side.via = "copy"
              => GeneratorState(Unwrap(orig), heap)
                 = GeneratorState(Unwrap(orig), snap.heap)
           /\ side.via = "orig"
              => GeneratorState(Unwrap(copy), heap)
                 = GeneratorState(Unwrap(copy), snap.heap)

(***************************************************************************)
(* Chunk: instruction bytes and their points (chunk.rs).  hist keeps a     *)
(* clock that every compiled byte and every set_next_point call advances,  *)
(* the time each byte of data was compiled and the point and time of       *)
(* every set_next_point call.                                              *)
(***************************************************************************)
\* The chunk as a call finds it.
Found == [data |-> data, points |-> points, constants |-> constants]

\* The positions the compiler attributes: (line, column) pairs.
Positions == {<<5, 1>>, <<5, 3>>, <<7, 2>>}

\* data.push(byte) of add_opcode and add_byte.
PushByte(f, byte) ==
    /\ ~aborted
    /\ hist.adds < MaxAdds
    /\ data' = Append(data, byte)
    /\ call' = [f |-> f, arg |-> byte]
    /\ old' = Found
    /\ hist' = [hist EXCEPT !.clock = @ + 1, !.adds = @ + 1,
                            !.compiled = Append(@, hist.clock + 1)]
    /\ UNCHANGED <<points, constants, aborted>>
    /\ UNCHANGED <<vmVars, cgVars, cloneVars, stringVars, genVars>>

add_opcode(opcode) == PushByte("add_opcode", opcode)

add_byte(byte) == PushByte("add_byte", byte)

\* pop_byte: data.pop(), which does nothing on an empty vector.
pop_byte ==
    /\ ~aborted
    /\ data' = SubSeq(data, 1, Len(data) - 1)
    /\ call' = [f |-> "pop_byte"]
    /\ old' = Found
    /\ hist' = [hist EXCEPT !.compiled = SubSeq(@, 1, Len(@) - 1)]
    /\ UNCHANGED <<points, constants, aborted>>
    /\ UNCHANGED <<vmVars, cgVars, cloneVars, stringVars, genVars>>

\* Vec::insert(index, element) with a 0-based index not above the length.
VecInsert(v, index, element) ==
    SubSeq(v, 1, index) \o <<element>> \o SubSeq(v, index + 1, Len(v))

\* set_next_point inserting at the front of points.
set_next_point_front(line_number, column_number) ==
    /\ ~aborted
    /\ Cardinality(hist.sets) < MaxSets
    /\ points' = <<<<line_number, column_number>>>> \o points
    /\ call' = [f |-> "set_next_point", arg |-> <<line_number, column_number>>]
    /\ old' = Found
    /\ hist' = [hist EXCEPT !.clock = @ + 1,
                            !.sets = @ \cup {[pt |-> <<line_number, column_number>>,
                                              time |-> hist.clock + 1]}]
    /\ UNCHANGED <<data, constants, aborted>>
    /\ UNCHANGED <<vmVars, cgVars, cloneVars, stringVars, genVars>>

set_next_point(line_number, column_number) ==
    LET data_len == Len(data)
        points_len == Len(points)
        prev_point == IF points_len > 0 THEN points[points_len] ELSE <<0, 0>>
        padded == IF points_len < data_len
                  THEN points \o [i \in 1..(data_len - points_len) |-> prev_point]
                  ELSE points
    IN  /\ ~aborted
        /\ Cardinality(hist.sets) < MaxSets
        /\ points' = VecInsert(padded, data_len, <<line_number, column_number>>)
        /\ call' = [f |-> "set_next_point", arg |-> <<line_number, column_number>>]
        /\ old' = Found
        /\ hist' = [hist EXCEPT !.clock = @ + 1,
                                !.sets = @ \cup {[pt |-> <<line_number, column_number>>,
                                                  time |-> hist.clock + 1]}]
        /\ UNCHANGED <<data, constants, aborted>>
        /\ UNCHANGED <<vmVars, cgVars, cloneVars, stringVars, genVars>>

\* get_point on a points vector, and on the chunk's own; i counts from 0.
point_at(pts, i) ==
    IF i < Len(pts) /\ pts[i + 1] # <<0, 0>> THEN Some(pts[i + 1]) ELSE None

get_point(i) == point_at(points, i)

\* The compiler's calls that write bytes and points.
NextPoints ==
    \/ add_opcode(1)
    \/ add_byte(0)
    \/ pop_byte
    \/ \E pt \in Positions : set_next_point(pt[1], pt[2])

SpecPoints == Init /\ [][NextPoints]_vars

(***************************************************************************)
(* Properties of point attribution (checked under SpecPoints).             *)
(***************************************************************************)
\* The point of the set_next_point call before the last one, if any.
LastKnown ==
    LET earlier == {e \in hist.sets : e.time < hist.clock}
    IN  IF earlier = {} THEN None
        ELSE Some((CHOOSE e \in earlier : \A o \in earlier : o.time <= e.time).pt)

\* C16: set_next_point(line, col) attaches (line, col) to the tail byte of
\* data, and gives every byte before it that had no position the last
\* known point.
C16_PointOnTailByte ==
    (call.f = "set_next_point" /\ Len(data) >= 1)
    => /\ get_point(Len(data) - 1) = Some(call.arg)
       /\ \A i \in 0..(Len(data) - 2) :
            (point_at(old.points, i) = None /\ IsSome(LastKnown))
            => get_point(i) = LastKnown

\* C17: the point of every byte of data is None or a point that a
\* set_next_point call passed no later than the byte was compiled.
C17_PointProvenance ==
    \A i \in 1..Len(data) :
        \/ get_point(i - 1) = None
        \/ \E e \in hist.sets :
               /\ e.pt = Unwrap(get_point(i - 1))
               /\ e.time <= hist.compiled[i]

C17_Witness ==
    /\ Len(data) = 2
    /\ hist.adds = 3
    /\ call.f = "set_next_point"
    /\ get_point(0) = Some(<<5, 1>>)
    /\ get_point(1) = Some(<<5, 1>>)
    /\ get_point(2) = Some(<<5, 3>>)

(***************************************************************************)
(* Chunk: the constant pool (chunk.rs).  hist.values keeps the values that *)
(* add_constant stored, in the order of the calls.                         *)
(***************************************************************************)
VCommand(s, params) == [t |-> "Command", s |-> s, params |-> params]
VCommandUncaptured(s) == [t |-> "CommandUncaptured", s |-> s]

\* enum ValueSD.
SDNull == [sd |-> "Null"]
SDBool(b) == [sd |-> "Bool", b |-> b]
SDInt(n) == [sd |-> "Int", n |-> n]
SDFloat(f) == [sd |-> "Float", f |-> f]
SDBigInt(text) == [sd |-> "BigInt", text |-> text]
SDString(st1, st2) == [sd |-> "String", st1 |-> st1, st2 |-> st2]
SDCommand(s, params) == [sd |-> "Command", s |-> s, params |-> params]
SDCommandUncaptured(s) == [sd |-> "CommandUncaptured", s |-> s]

\* The match of add_constant storing a BigInt as the digits of its magnitude.
to_value_sd_unsigned(value_rr) ==
    CASE value_rr.t = "Null" -> Some(SDNull)
      [] value_rr.t = "Int" -> Some(SDInt(value_rr.i))
      [] value_rr.t = "Float" -> Some(SDFloat(value_rr))
      [] value_rr.t = "BigInt" -> Some(SDBigInt(FormatNat(Abs(value_rr.b))))
      [] value_rr.t = "String" -> Some(SDString(value_rr.str, value_rr.esc))
      [] value_rr.t = "Command" -> Some(SDCommand(value_rr.s, value_rr.params))
      [] value_rr.t = "CommandUncaptured" -> Some(SDCommandUncaptured(value_rr.s))
      [] value_rr.t = "Bool" -> Some(SDBool(value_rr.q))
      [] OTHER -> None

\* The match of add_constant: the ValueSD of a value, None where the
\* match arm aborts.
to_value_sd(value_rr) ==
    CASE value_rr.t = "Null" -> Some(SDNull)
      [] value_rr.t = "Int" -> Some(SDInt(value_rr.i))
      [] value_rr.t = "Float" -> Some(SDFloat(value_rr))
      [] value_rr.t = "BigInt" -> Some(SDBigInt(FormatInt(value_rr.b)))
      [] value_rr.t = "String" -> Some(SDString(value_rr.str, value_rr.esc))
      [] value_rr.t = "Command" -> Some(SDCommand(value_rr.s, value_rr.params))
      [] value_rr.t = "CommandUncaptured" -> Some(SDCommandUncaptured(value_rr.s))
      [] value_rr.t = "Bool" -> Some(SDBool(value_rr.q))
      [] OTHER -> None

\* The match of get_constant: the Value of a ValueSD, None where the
\* unwrap of the parsed BigInt panics.
from_value_sd(value_sd) ==
    CASE value_sd.sd = "Null" -> Some(VNull)
      [] value_sd.sd = "Bool" -> Some(VBool(value_sd.b))
      [] value_sd.sd = "Int" -> Some(VInt(value_sd.n))
      [] value_sd.sd = "Float" -> Some(value_sd.f)
      [] value_sd.sd = "BigInt" ->
           LET nn == ParseBigInt(value_sd.text)
           IN  IF IsSome(nn) THEN Some(VBigInt(Unwrap(nn))) ELSE None
      [] value_sd.sd = "String" ->
           LET st == StringTriple_new_with_escaped(value_sd.st1, value_sd.st2)
           IN  Some([t |-> "String", str |-> st.string, esc |-> st.escaped_string])
      [] value_sd.sd = "Command" -> Some(VCommand(value_sd.s, value_sd.params))
      [] value_sd.sd = "CommandUncaptured" -> Some(VCommandUncaptured(value_sd.s))

\* add_constant storing Null for a value that has no ValueSD.
add_constant_lenient(value_rr) ==
    LET value_sd == to_value_sd(value_rr)
        stored == IF IsSome(value_sd) THEN Unwrap(value_sd) ELSE SDNull
    IN  /\ ~aborted
        /\ ~panicked
        /\ Len(constants) < MaxConstants
        /\ old' = Found
        /\ constants' = Append(constants, stored)
        /\ call' = [f |-> "add_constant", arg |-> value_rr,
                    rv |-> Len(constants)]
        /\ hist' = [hist EXCEPT !.values = Append(@, value_rr)]
        /\ UNCHANGED <<data, points, aborted>>
        /\ UNCHANGED <<vmVars, cgVars, cloneVars, stringVars, genVars>>

add_constant(value_rr) ==
    LET value_sd == to_value_sd(value_rr)
    IN  /\ ~aborted
        /\ ~panicked
        /\ old' = Found
        /\ IF IsSome(value_sd)
           THEN /\ Len(constants) < MaxConstants
                /\ constants' = Append(constants, Unwrap(value_sd))
                /\ call' = [f |-> "add_constant", arg |-> value_rr,
                            rv |-> Len(Append(constants, Unwrap(value_sd))) - 1]
                /\ hist' = [hist EXCEPT !.values = Append(@, value_rr)]
                /\ UNCHANGED aborted
           ELSE /\ aborted' = TRUE
                /\ call' = [f |-> "add_constant", arg |-> value_rr]
                /\ UNCHANGED <<constants, hist>>
        /\ UNCHANGED <<data, points>>
        /\ UNCHANGED <<vmVars, cgVars, cloneVars, stringVars, genVars>>

\* get_constant(i): indexing constants with (i as usize) panics outside the
\* pool, and so does the unwrap of a BigInt text that does not parse.
get_constant(i) ==
    LET inside == 0 <= i /\ i < Len(constants)
        value == IF inside THEN from_value_sd(constants[i + 1]) ELSE None
    IN  /\ ~aborted
        /\ ~panicked
        /\ old' = Found
        /\ IF IsSome(value)
           THEN /\ call' = [f |-> "get_constant", arg |-> i, rv |-> Unwrap(value)]
                /\ UNCHANGED panicked
           ELSE /\ call' = [f |-> "get_constant", arg |-> i]
                /\ panicked' = TRUE
        /\ UNCHANGED <<data, points, constants, aborted, hist>>
        /\ UNCHANGED <<stack, prev, op, ret, diag>>
        /\ UNCHANGED <<cgVars, cloneVars, stringVars, genVars>>

\* The cells that the values without a ValueSD refer to.
ConstHeap ==
    <<ListCell(<<VInt(1)>>), HashCell(<<Entry("a", VInt(1))>>),
      SetCell(<<Entry("1", VInt(1))>>), VecCell(<<>>),
      GeneratorObject_new(4, 0, "f", <<>>, <<>>)>>

\* Values of every variant that has a ValueSD.
Serialisable ==
    {VNull, VBool(TRUE), VBool(FALSE), VInt(MinI32), VInt(MaxI32),
     VFloat(0 - 3, 2), FInf(1),
     VBigInt(MaxI32 + 1), VBigInt(0 - (MaxU64 + 1)),
     VString(<<"a", "dq">>),
     [t |-> "String", str |-> <<"bs">>, esc |-> <<"bs", "bs">>],
     VCommand(<<"l", "s">>, {}), VCommand(<<"l", "s">>, {"e"}),
     VCommandUncaptured(<<"l", "s">>)}

\* Values of variants that have none.
Unserialisable == {ListAt(1), HashAt(2), SetAt(3), GeneratorAt(5)}

InitConstants ==
    /\ InitVm
    /\ CommandGenerator_new(TRUE, FALSE, FALSE)
    /\ Chunk_new_standard
    /\ NoTriple
    /\ NoGenerator
    /\ heap = ConstHeap
    /\ orig = None
    /\ copy = None
    /\ snap = [heap |-> <<>>, before |-> <<>>]
    /\ side = [via |-> "none", writes |-> 0, clones |-> 0]

NextConstants ==
    \/ \E v \in Serialisable \cup Unserialisable : add_constant(v)
    \/ \E i \in (0 - 1)..Len(constants) : get_constant(i)

SpecConstants == InitConstants /\ [][NextConstants]_vars

(***************************************************************************)
(* Properties of the constant pool (checked under SpecConstants).          *)
(***************************************************************************)
\* C18: the k-th add_constant of a chunk returns k - 1 and leaves the
\* constants before it in place, and get_constant at the index of a stored
\* value returns a value of the same variant and payload.
C18_ConstantRoundTrip ==
    /\ (call.f = "add_constant" /\ ~aborted)
       => /\ call.rv = Len(hist.values) - 1
          /\ call.rv = Len(constants) - 1
          /\ old.constants = SubSeq(constants, 1, Len(constants) - 1)
    /\ Len(constants) = Len(hist.values)
    /\ \A k \in 1..Len(constants) :
           from_value_sd(constants[k]) = Some(hist.values[k])
    /\ (call.f = "get_constant" /\ 0 <= call.arg /\ call.arg < Len(constants))
       => /\ ~panicked
          /\ call.rv = hist.values[call.arg + 1]

C18_Witness ==
    /\ call.f = "get_constant"
    /\ call.arg = 1
    /\ ~panicked
    /\ call.rv = VBigInt(0 - (MaxU64 + 1))
    /\ hist.values = <<VString(<<"a", "dq">>), VBigInt(0 - (MaxU64 + 1))>>

\* C19: add_constant called with a value of a variant that has no ValueSD
\* aborts the process and leaves the constant pool as it was.
C19_AddConstantAborts ==
    (call.f = "add_constant"
     /\ call.arg.t \notin {"Null", "Bool", "Int", "Float", "BigInt", "String",
                           "Command", "CommandUncaptured"})
    => /\ aborted
       /\ constants = old.constants

C19_Witness ==
    /\ call.f = "add_constant"
    /\ call.arg = GeneratorAt(5)
    /\ aborted
    /\ Len(constants) = 1
    /\ constants = old.constants

(***************************************************************************)
(* Strings built with StringTriple::new (chunk.rs).                        *)
(***************************************************************************)
\* The characters of the raw texts.
TextChars == {"bs", "dq", "nl", "cr", "tab", "a"}

\* The raw texts of up to n characters.
RECURSIVE Texts(_)
Texts(n) ==
    IF n = 0 THEN {<<>>}
    ELSE LET shorter == Texts(n - 1)
         IN  shorter \cup {Append(s, c) : s \in {x \in shorter : Len(x) = n - 1},
                                          c \in TextChars}

\* A String value is built from the raw text s.
new_string(s) ==
    /\ ~aborted
    /\ ~panicked
    /\ triple' = Some(StringTriple_new(s))
    /\ UNCHANGED <<vmVars, cgVars, cloneVars, chunkVars, genVars>>

NextString == \E s \in Texts(MaxText) : new_string(s)

SpecString == Init /\ [][NextString]_vars

(***************************************************************************)
(* Properties of escaped text (checked under SpecString).                  *)
(***************************************************************************)
\* The escape the text of one character has: a backslash is doubled, the
\* newline, carriage return, tab and double quote get their two-character
\* escapes, any other character is itself.
EscapeOfChar(c) ==
    CASE c = "bs" -> <<"bs", "bs">>
      [] c = "nl" -> <<"bs", "n">>
      [] c = "cr" -> <<"bs", "r">>
      [] c = "tab" -> <<"bs", "t">>
      [] c = "dq" -> <<"bs", "dq">>
      [] OTHER -> <<c>>

RECURSIVE CanonicalEscape(_)
CanonicalEscape(s) ==
    IF s = <<>> THEN <<>> ELSE EscapeOfChar(Head(s)) \o CanonicalEscape(Tail(s))

\* C20: the escaped_string of a String built with StringTriple::new is the
\* character-by-character escape of its raw text, backslashes doubled.
C20_EscapedIsCanonical ==
    IsSome(triple)
    => Unwrap(triple).escaped_string = CanonicalEscape(Unwrap(triple).string)

(***************************************************************************)
(* IS-NULL and its fusion with DUP (vm_basics.rs), and programs of stack   *)
(* shuffles over stacks one value deeper than the shuffles need.           *)
(***************************************************************************)
opcode_isnull ==
    BasicOpcode("isnull", 1, "is-null requires one argument",
                Append(Pop(stack, 1), VBool(Top(stack) = VNull)))

\* opcode_dupisnull popping the value it tests.
opcode_dupisnull_popping ==
    BasicOpcode("dupisnull", 1, "is-null requires one argument",
                Append(Pop(stack, 1), VBool(Top(stack) = VNull)))

opcode_dupisnull ==
    /\ Len(stack) < ShuffleDepth + 1
    /\ BasicOpcode("dupisnull", 1, "is-null requires one argument",
                   Append(stack, VBool(Top(stack) = VNull)))

\* Four values that differ from each other.
ShufflePool == {VNull, VInt(1), VInt(2), VString(<<"x">>)}

NextShuffle ==
    \/ \E v \in ShufflePool : opcode_constant(v, ShuffleDepth + 1)
    \/ opcode_drop
    \/ opcode_clear
    \/ opcode_dup
    \/ opcode_over
    \/ opcode_swap
    \/ opcode_rot
    \/ opcode_depth
    \/ opcode_isnull
    \/ opcode_dupisnull

SpecShuffle == Init /\ [][NextShuffle]_vars

(***************************************************************************)
(* Properties of the stack shuffles (checked under SpecShuffle).           *)
(***************************************************************************)
\* The stack and return code the claim gives DUPISNULL on the stack st.
Fused(st) ==
    IF st = <<>> THEN [stack |-> <<>>, ret |-> 0]
    ELSE [stack |-> Append(st, VBool(Top(st) = VNull)), ret |-> 1]

\* C25: DUPISNULL leaves the stack and return code that DUP followed by
\* ISNULL leaves: the top value in place with Bool(top is Null) above it,
\* and on an empty stack return code 0 and the empty stack.
C25_DupIsNullFusion ==
    [][/\ op' = "dupisnull"
          => [stack |-> stack', ret |-> ret'] = Fused(stack)
       /\ (op' = "dup" /\ stack = <<>>)
          => [stack |-> stack', ret |-> ret'] = Fused(stack)
       /\ (op = "dup" /\ ret = 1 /\ op' = "isnull")
          => [stack |-> stack', ret |-> ret'] = Fused(prev)]_vars

C25_Witness ==
    /\ op = "dupisnull"
    /\ prev = <<VInt(1), VNull>>
    /\ stack = <<VInt(1), VNull, VBool(TRUE)>>
    /\ ret = 1

\* The stack a shuffle leaves on [.., c, b, a], a on top.
Shuffled(o, st) ==
    LET n == Len(st)
    IN  CASE o = "drop" -> Pop(st, 1)
          [] o = "dup" -> st \o <<st[n]>>
          [] o = "over" -> st \o <<st[n - 1]>>
          [] o = "swap" -> Pop(st, 2) \o <<st[n], st[n - 1]>>
          [] o = "rot" -> Pop(st, 3) \o <<st[n - 1], st[n], st[n - 2]>>
          [] o = "depth" -> st \o <<VInt(n)>>
          [] o = "clear" -> <<>>

V4Octets == 2
V6Octets == 2 * V4Octets
V4Bits == V4Octets * OctetBits
V6Bits == V6Octets * OctetBits
OctetSize == 2^OctetBits
SegmentSize == OctetSize * OctetSize
MaxV4 == 2^V4Bits - 1
MaxV6 == 2^V6Bits - 1

AddrsV4 == [1..V4Octets -> 0..(OctetSize - 1)]
AddrsV6 == [1..V6Octets -> 0..(OctetSize - 1)]

\* The loop of ipv4_addr_to_int and ipv6_addr_to_int: octet i is shifted
\* left to its place and or-ed into n; the places do not overlap.
RECURSIVE addr_to_int(_, _)
addr_to_int(octets, i) ==
    IF i > Len(octets) THEN 0
    ELSE octets[i] * 2^(Len(octets) * OctetBits - i * OctetBits)
         + addr_to_int(octets, i + 1)

ipv4_addr_to_int(ipv4) == addr_to_int(ipv4, 1)

ipv6_addr_to_int(ipv6) == addr_to_int(ipv6, 1)

\* n >> shift & mask, the mask being size - 1.
ShiftMask(n, shift, size) == (n \div 2^shift) % size

\* int_to_ipv4_addr(n: u32): one octet per shift.
int_to_ipv4_addr(n) ==
    [i \in 1..V4Octets |-> ShiftMask(n, (V4Octets - i) * OctetBits, OctetSize)]

\* int_to_ipv6_addr(n: BigUint): one segment per shift, bits above the
\* address width fall outside every mask; Ipv6Addr::new stores a segment as
\* its two octets.
int_to_ipv6_addr(n) ==
    LET segment(j) == ShiftMask(n, (V6Octets - 2 * j) * OctetBits, SegmentSize)
    IN  [i \in 1..V6Octets |->
            IF i % 2 = 1 THEN segment((i + 1) \div 2) \div OctetSize
            ELSE segment(i \div 2) % OctetSize]

\* Ipv4Net and Ipv6Net: an address and a prefix length; the ranges.
VIpv4(addr, prefix_len) == [t |-> "Ipv4", addr |-> addr, len |-> prefix_len]
VIpv6(addr, prefix_len) == [t |-> "Ipv6", addr |-> addr, len |-> prefix_len]
VIpv4Range(s, e) == [t |-> "Ipv4Range", s |-> s, e |-> e]
VIpv6Range(s, e) == [t |-> "Ipv6Range", s |-> s, e |-> e]

\* Ipv4Net::network and Ipv6Net::network: the address with its host bits
\* cleared.
network(net) ==
    LET bits == Len(net.addr) * OctetBits
        n == addr_to_int(net.addr, 1)
        base == n - (n % 2^(bits - net.len))
    IN  [i \in 1..Len(net.addr) |->
            ShiftMask(base, (Len(net.addr) - i) * OctetBits, OctetSize)]

(***************************************************************************)
(* IP text: str::contains, str::split, str::trim, and the parsers of       *)
(* Ipv4Net and Ipv6Net on "address/length".  An IPv6 address is written    *)
(* with all its segments, in hexadecimal.                                  *)
(***************************************************************************)
Contains(s, c) == \E i \in 1..Len(s) : s[i] = c

\* str::split(c): the parts between the occurrences of c.
RECURSIVE Split(_, _)
Split(s, c) ==
    IF ~Contains(s, c) THEN <<s>>
    ELSE LET p == CHOOSE i \in 1..Len(s) :
                      s[i] = c /\ \A j \in 1..(i - 1) : s[j] # c
         IN  <<SubSeq(s, 1, p - 1)>> \o Split(SubSeq(s, p + 1, Len(s)), c)

\* str::trim for the space.
RECURSIVE Trim(_)
Trim(s) ==
    IF s # <<>> /\ Head(s) = " " THEN Trim(Tail(s))
    ELSE IF s # <<>> /\ s[Len(s)] = " " THEN Trim(SubSeq(s, 1, Len(s) - 1))
    ELSE s

HexChars == <<"0", "1", "2", "3", "4", "5", "6", "7", "8", "9",
              "a", "b", "c", "d", "e", "f">>
IsHex(c) == \E i \in 1..16 : HexChars[i] = c
HexDigit(c) == (CHOOSE i \in 1..16 : HexChars[i] = c) - 1

RECURSIVE HexVal(_)
HexVal(s) ==
    IF s = <<>> THEN 0
    ELSE HexVal(SubSeq(s, 1, Len(s) - 1)) * 16 + HexDigit(s[Len(s)])

RECURSIVE FormatHex(_)
FormatHex(n) ==
    IF n < 16 THEN <<HexChars[n + 1]>>
    ELSE FormatHex(n \div 16) \o <<HexChars[(n % 16) + 1]>>

\* A decimal number without a sign or a leading zero, below `size`.
ParseBounded(s, size) ==
    IF s = <<>> \/ Len(s) > 3 \/ ~AllDigits(s) \/ (Len(s) > 1 /\ s[1] = "0")
    THEN None
    ELSE IF DecVal(s) < size THEN Some(DecVal(s)) ELSE None

\* Ipv4Addr::from_str: V4Octets decimal octets between dots.
ParseIpv4Addr(s) ==
    LET parts == Split(s, ".")
    IN  IF Len(parts) = V4Octets
           /\ \A i \in 1..Len(parts) : IsSome(ParseBounded(parts[i], OctetSize))
        THEN Some([i \in 1..V4Octets |-> Unwrap(ParseBounded(parts[i], OctetSize))])
        ELSE None

\* A hexadecimal segment of one to four digits.
ParseSegment(s) ==
    IF s = <<>> \/ Len(s) > 4 \/ \E i \in 1..Len(s) : ~IsHex(s[i]) THEN None
    ELSE IF HexVal(s) < SegmentSize THEN Some(HexVal(s)) ELSE None

\* Ipv6Addr::from_str on the full form: hexadecimal segments between colons.
ParseIpv6Addr(s) ==
    LET parts == Split(s, ":")
    IN  IF Len(parts) * 2 = V6Octets
           /\ \A i \in 1..Len(parts) : IsSome(ParseSegment(parts[i]))
        THEN Some([i \in 1..V6Octets |->
                      IF i % 2 = 1
                      THEN Unwrap(ParseSegment(parts[(i + 1) \div 2])) \div OctetSize
                      ELSE Unwrap(ParseSegment(parts[i \div 2])) % OctetSize])
        ELSE None

\* Ipv4Net::from_str: an address, a slash and a prefix length up to the
\* address width.
Ipv4Net_from_str(s) ==
    LET parts == Split(s, "/")
    IN  IF Len(parts) = 2
           /\ IsSome(ParseIpv4Addr(parts[1]))
           /\ IsSome(ParseBounded(parts[2], V4Bits + 1))
        THEN Some(VIpv4(Unwrap(ParseIpv4Addr(parts[1])),
                        Unwrap(ParseBounded(parts[2], V4Bits + 1))))
        ELSE None

Ipv6Net_from_str(s) ==
    LET parts == Split(s, "/")
    IN  IF Len(parts) = 2
           /\ IsSome(ParseIpv6Addr(parts[1]))
           /\ IsSome(ParseBounded(parts[2], V6Bits + 1))
        THEN Some(VIpv6(Unwrap(ParseIpv6Addr(parts[1])),
                        Unwrap(ParseBounded(parts[2], V6Bits + 1))))
        ELSE None

\* Display of Ipv4Addr and of Ipv6Addr (full form).
RECURSIVE FormatIpv4Addr(_)
FormatIpv4Addr(octets) ==
    IF Len(octets) = 1 THEN FormatNat(octets[1])
    ELSE FormatNat(Head(octets)) \o <<".">> \o FormatIpv4Addr(Tail(octets))

RECURSIVE FormatIpv6Addr(_)
FormatIpv6Addr(octets) ==
    LET segment == FormatHex(octets[1] * OctetSize + octets[2])
    IN  IF Len(octets) = 2 THEN segment
        ELSE segment \o <<":">> \o FormatIpv6Addr(SubSeq(octets, 3, Len(octets)))

\* The derived order of Ipv4Net and Ipv6Net: by address, then prefix length.
NetLt(a, b) ==
    \/ addr_to_int(a.addr, 1) < addr_to_int(b.addr, 1)
    \/ addr_to_int(a.addr, 1) = addr_to_int(b.addr, 1) /\ a.len < b.len

(***************************************************************************)
(* IP opcodes (vm_ip.rs).  An inner helper yields its return code, the     *)
(* values it pushes after popping its arguments, whether it panicked, and  *)
(* the error it printed.                                                   *)
(***************************************************************************)
IpOk(v) == [rc |-> 1, push |-> <<v>>, panic |-> FALSE, msg |-> ""]
IpFail(msg) == [rc |-> 0, push |-> <<>>, panic |-> FALSE, msg |-> msg]
IpPanic == [rc |-> NoReturn, push |-> <<>>, panic |-> TRUE, msg |-> ""]
IpNothing == [rc |-> 1, push |-> <<>>, panic |-> FALSE, msg |-> ""]

RECURSIVE BitAnd(_, _)
BitAnd(a, b) ==
    IF a = 0 \/ b = 0 THEN 0
    ELSE (a % 2) * (b % 2) + 2 * BitAnd(a \div 2, b \div 2)

BitOr(a, b) == a + b - BitAnd(a, b)

\* The checks of core_ip on a parsed prefix of an address of `bits` bits.
prefix_check(net, bits) ==
    LET addr_int == addr_to_int(net.addr, 1)
        prefix_len == net.len
    IN  IF prefix_len = 0 /\ addr_int # 0 THEN IpFail("invalid prefix length")
        ELSE IF ~(prefix_len = 0 /\ addr_int = 0)
                /\ BitAnd(addr_int, 2^(bits - prefix_len) - 1) # 0
        THEN IpFail("invalid prefix length")
        ELSE IpOk(net)

\* prefix_check without the test of the host bits.
core_ip_v4_prefix_unchecked(s) ==
    LET ipv4_res == IF ~Contains(s, "/")
                    THEN Ipv4Net_from_str(s \o <<"/">> \o FormatNat(V4Bits))
                    ELSE Ipv4Net_from_str(s)
    IN  IF IsSome(ipv4_res) THEN IpOk(Unwrap(ipv4_res))
        ELSE IpFail("unable to parse IP address: e")

\* core_ip on a text with a dot and no dash.
core_ip_v4_prefix(s) ==
    LET ipv4_res == IF ~Contains(s, "/")
                    THEN Ipv4Net_from_str(s \o <<"/">> \o FormatNat(V4Bits))
                    ELSE Ipv4Net_from_str(s)
    IN  IF IsSome(ipv4_res) THEN prefix_check(Unwrap(ipv4_res), V4Bits)
        ELSE IpFail("unable to parse IP address: e")

\* core_ip on a text with neither a dot nor a dash.
core_ip_v6_prefix(s) ==
    LET ipv6_res == IF ~Contains(s, "/")
                    THEN Ipv6Net_from_str(s \o <<"/">> \o FormatNat(V6Bits))
                    ELSE Ipv6Net_from_str(s)
    IN  IF IsSome(ipv6_res) THEN prefix_check(Unwrap(ipv6_res), V6Bits)
        ELSE IpFail("unable to parse IP address: e")

\* core_ip_v4_range accepting a start that is not below the end.
core_ip_v4_range_unordered(s) ==
    LET parts == Split(s, "-")
        ipv4_fst == Ipv4Net_from_str(Trim(parts[1]) \o <<"/">> \o FormatNat(V4Bits))
        ipv4_snd == Ipv4Net_from_str(Trim(parts[2]) \o <<"/">> \o FormatNat(V4Bits))
    IN  IF Len(parts) > 2 THEN IpFail("unable to parse IP address")
        ELSE IF IsSome(ipv4_fst) /\ IsSome(ipv4_snd)
        THEN IpOk(VIpv4Range(network(Unwrap(ipv4_fst)), network(Unwrap(ipv4_snd))))
        ELSE IpFail("unable to parse IP address")

\* core_ip on a text with a dot and a dash.
core_ip_v4_range(s) ==
    LET parts == Split(s, "-")
        ipv4_fst == Ipv4Net_from_str(Trim(parts[1]) \o <<"/">> \o FormatNat(V4Bits))
        ipv4_snd == Ipv4Net_from_str(Trim(parts[2]) \o <<"/">> \o FormatNat(V4Bits))
    IN  IF Len(parts) > 2 THEN IpFail("unable to parse IP address")
        ELSE IF IsSome(ipv4_fst) /\ IsSome(ipv4_snd)
        THEN IF ~NetLt(Unwrap(ipv4_fst), Unwrap(ipv4_snd))
             THEN IpFail("unable to parse IP address")
             ELSE IpOk(VIpv4Range(network(Unwrap(ipv4_fst)),
                                  network(Unwrap(ipv4_snd))))
        ELSE IpFail("unable to parse IP address")

\* core_ip on a text with a dash and no dot.
core_ip_v6_range(s) ==
    LET parts == Split(s, "-")
        ipv6_fst == Ipv6Net_from_str(Trim(parts[1]) \o <<"/">> \o FormatNat(V6Bits))
        ipv6_snd == Ipv6Net_from_str(Trim(parts[2]) \o <<"/">> \o FormatNat(V6Bits))
    IN  IF Len(parts) > 2 THEN IpFail("unable to parse IP address")
        ELSE IF IsSome(ipv6_fst) /\ IsSome(ipv6_snd)
        THEN IF ~NetLt(Unwrap(ipv6_fst), Unwrap(ipv6_snd))
             THEN IpFail("unable to parse IP address")
             ELSE IpOk(VIpv6Range(network(Unwrap(ipv6_fst)),
                                  network(Unwrap(ipv6_snd))))
        ELSE IpFail("unable to parse IP address")

\* The body of core_ip after the pop: a value without a text falls through
\* the match to the final return 1.
core_ip_inner(value_rr) ==
    LET value_opt == to_str(value_rr)
        s == Unwrap(value_opt)
    IN  IF ~IsSome(value_opt) THEN IpNothing
        ELSE IF Contains(s, ".")
        THEN (IF Contains(s, "-") THEN core_ip_v4_range(s) ELSE core_ip_v4_prefix(s))
        ELSE (IF Contains(s, "-") THEN core_ip_v6_range(s) ELSE core_ip_v6_prefix(s))

\* The body of core_ip_from_int: value_rr is popped first, version_rr second.
\* to_biguint().unwrap() panics on a negative value.
core_ip_from_int_inner(version_rr, value_rr) ==
    LET value_opt == to_bigint(value_rr)
        version_opt == to_int(version_rr)
        value == Unwrap(value_opt)
    IN  IF version_opt = Some(4) /\ IsSome(value_opt)
        THEN (IF value > MaxV4 THEN IpFail("IPv4 address is outside 32-bit bound")
              ELSE IF value < 0 THEN IpPanic
              ELSE IpOk(VIpv4(int_to_ipv4_addr(value), V4Bits)))
        ELSE IF version_opt = Some(6) /\ IsSome(value_opt)
        THEN (IF value < 0 THEN IpPanic
              ELSE IpOk(VIpv6(int_to_ipv6_addr(value), V6Bits)))
        ELSE IF IsSome(version_opt) THEN IpFail("invalid IP address version")
        ELSE IpFail("invalid IP integer")

\* The loop of core_ip_len: one bit of length less for every halving.
RECURSIVE LenLoop(_, _)
LenLoop(host_count, len) ==
    IF host_count = 1 THEN len ELSE LenLoop(host_count \div 2, len - 1)

\* core_ip_len on a range of addresses of `bits` bits.
range_len(s_num, e_num, bits) ==
    LET host_count == e_num - s_num + 1
    IN  IF BitAnd(host_count, host_count - 1) = 0
        THEN IpOk(VInt(LenLoop(host_count, bits)))
        ELSE IpFail("IP range has no length")

core_ip_len_inner(ip_rr) ==
    CASE ip_rr.t = "Ipv4" -> IpOk(VInt(ip_rr.len))
      [] ip_rr.t = "Ipv4Range" ->
           LET s_num == ipv4_addr_to_int(ip_rr.s)
               e_num == ipv4_addr_to_int(ip_rr.e)
           IN  IF s_num = 0 /\ e_num = MaxV4 THEN IpOk(VInt(0))
               ELSE range_len(s_num, e_num, V4Bits)
      [] ip_rr.t = "Ipv6" -> IpOk(VInt(ip_rr.len))
      [] ip_rr.t = "Ipv6Range" ->
           range_len(ipv6_addr_to_int(ip_rr.s), ipv6_addr_to_int(ip_rr.e), V6Bits)
      [] OTHER -> IpFail("expected IP object argument")

core_ip_size_inner(ip_rr) ==
    CASE ip_rr.t = "Ipv4" ->
           LET ipv4addr_int == ipv4_addr_to_int(network(ip_rr))
               lastaddr_int == BitOr(ipv4addr_int, 2^(V4Bits - ip_rr.len) - 1)
           IN  IF ipv4addr_int = 0 /\ ip_rr.len = 0 THEN IpOk(VBigInt(MaxV4))
               ELSE IpOk(VBigInt(lastaddr_int - ipv4addr_int + 1))
      [] ip_rr.t = "Ipv4Range" ->
           LET s_num == ipv4_addr_to_int(ip_rr.s)
               e_num == ipv4_addr_to_int(ip_rr.e)
           IN  IF s_num = 0 /\ e_num = MaxV4 THEN IpOk(VBigInt(MaxV4 + 1))
               ELSE IpOk(VBigInt(e_num - s_num + 1))
      [] ip_rr.t = "Ipv6" ->
           LET prefix_mask == 2^(V6Bits - ip_rr.len) - 1
               ipv6addr_int == ipv6_addr_to_int(network(ip_rr))
               lastaddr_int == BitOr(ipv6addr_int, prefix_mask)
           IN  IpOk(VBigInt(lastaddr_int - ipv6addr_int + 1))
      [] ip_rr.t = "Ipv6Range" ->
           IpOk(VBigInt(ipv6_addr_to_int(ip_rr.e) - ipv6_addr_to_int(ip_rr.s) + 1))
      [] OTHER -> IpFail("expected IP object argument")

core_ip_addr_int_inner(ip_rr) ==
    CASE ip_rr.t = "Ipv4" -> IpOk(VBigInt(ipv4_addr_to_int(network(ip_rr))))
      [] ip_rr.t = "Ipv4Range" -> IpOk(VBigInt(ipv4_addr_to_int(ip_rr.s)))
      [] ip_rr.t = "Ipv6" -> IpOk(VBigInt(ipv6_addr_to_int(network(ip_rr))))
      [] ip_rr.t = "Ipv6Range" -> IpOk(VBigInt(ipv6_addr_to_int(ip_rr.s)))
      [] OTHER -> IpFail("expected IP object argument")

\* The value an IP opcode pops first, and second; below the depth the
\* opcode needs nothing is popped and they are never used.
PoppedTop == IF stack = <<>> THEN VNull ELSE stack[Len(stack)]
PoppedSecond == IF Len(stack) < 2 THEN VNull ELSE stack[Len(stack) - 1]

\* The body shared by the IP opcodes: check the depth, pop `need` values,
\* take the inner helper's outcome r.
IpOpcode(name, need, arityMsg, r) ==
    /\ ~panicked
    /\ prev' = stack
    /\ op' = name
    /\ IF Len(stack) < need
       THEN /\ ret' = 0
            /\ diag' = arityMsg
            /\ UNCHANGED <<stack, panicked>>
       ELSE /\ stack' = Pop(stack, need) \o r.push
            /\ ret' = r.rc
            /\ diag' = r.msg
            /\ panicked' = r.panic
    /\ OnlyVm

core_ip == IpOpcode("ip", 1, "ip requires one argument", core_ip_inner(PoppedTop))

core_ip_from_int ==
    IpOpcode("ip.from-int", 2, "ip.from-int requires two arguments",
             core_ip_from_int_inner(PoppedSecond, PoppedTop))

core_ip_len ==
    IpOpcode("ip.len", 1, "ip.len requires one argument",
             core_ip_len_inner(PoppedTop))

core_ip_addr_int ==
    IpOpcode("ip.addr-int", 1, "ip.addr-int requires one argument",
             core_ip_addr_int_inner(PoppedTop))

core_ip_size ==
    IpOpcode("ip.size", 1, "ip.size requires one argument",
             core_ip_size_inner(PoppedTop))

(***************************************************************************)
(* Programs that start by pushing one constant and apply IP opcodes to it, *)
(* or by pushing a version and a number and apply ip.from-int.             *)
(***************************************************************************)
Slash == <<"/">>
Dash == <<"-">>

\* "address/length" for every address and every length up to one above the
\* width, and the bare addresses.
TextsV4 ==
    {FormatIpv4Addr(a) \o Slash \o FormatNat(l) : a \in AddrsV4, l \in 0..(V4Bits + 1)}
    \cup {FormatIpv4Addr(a) : a \in AddrsV4}

TextsV6 ==
    {FormatIpv6Addr(a) \o Slash \o FormatNat(l) : a \in AddrsV6, l \in 0..(V6Bits + 1)}
    \cup {FormatIpv6Addr(a) : a \in AddrsV6}

\* The ends of the IPv6 ranges: the lowest and highest addresses and the
\* ones about the middle.
EndsV6 ==
    {int_to_ipv6_addr(n) : n \in {0, 1, 2, 2^(V6Bits - 1) - 1, 2^(V6Bits - 1),
                                  MaxV6 - 1, MaxV6}}

RangesV4 == {FormatIpv4Addr(a) \o Dash \o FormatIpv4Addr(b) : a \in AddrsV4, b \in AddrsV4}

RangesV6 == {FormatIpv6Addr(a) \o Dash \o FormatIpv6Addr(b) : a \in EndsV6, b \in EndsV6}

\* Texts that are no address, prefix or range, and a range written with
\* spaces.
OddTexts ==
    {<<>>, <<"x">>, <<"1">>, <<"0", ".", "0", "-", "0", ".", "1", "-", "1", ".", "0">>,
     <<"0", ":", "0", "-", "0", ":", "1", "-", "1", ":", "0">>,
     <<"0", ".", "0", "/", "1", "/", "1">>,
     <<"0", ".", "0", " ", "-", " ", "0", ".", "1">>, <<"0", ".", "0", "-">>}

IpTexts == TextsV4 \cup TextsV6 \cup RangesV4 \cup RangesV6 \cup OddTexts

\* Values that are no String.
NoTexts == {VNull, VBool(TRUE), VInt(1), VList(<<>>)}

Versions == {VInt(4), VInt(6), VInt(5), VString(<<"4">>), VBool(TRUE)}

Numbers ==
    {VBigInt(n) : n \in (0 - 1)..(MaxV6 + 1)}
    \cup {VInt(3), VString(<<"2">>), VList(<<>>)}

IpTypes == {"Ipv4", "Ipv6", "Ipv4Range", "Ipv6Range"}

NextIp ==
    \/ op = "none" /\ \E s \in IpTexts : opcode_constant(VString(s), 1)
    \/ op = "none" /\ \E v \in NoTexts \cup Versions : opcode_constant(v, 1)
    \/ /\ op = "constant"
       /\ PoppedTop \in Versions
       /\ \E v \in Numbers : opcode_constant(v, 2)
    \/ PoppedTop.t \notin IpTypes /\ core_ip
    \/ core_ip_from_int
    \/ core_ip_len
    \/ core_ip_addr_int
    \/ core_ip_size

SpecIp == Init /\ [][NextIp]_vars

(***************************************************************************)
(* Properties of the IP opcodes (checked under SpecIp).                    *)
(***************************************************************************)
\* The address n of `bits` bits has no bit set below the prefix length.
HostBitsZero(n, prefix_len, bits) == n % 2^(bits - prefix_len) = 0

\* core_ip ran on the text s alone on the stack.
IpOn(s) == op = "ip" /\ Len(prev) = 1 /\ prev[1].t = "String" /\ prev[1].str = s

Rejected(msg) == stack = <<>> /\ ret = 0 /\ diag = msg

\* The texts "addr/len" of the prefixes and "start-end" of the ranges.
PrefixV4 == [a \in AddrsV4, l \in 0..V4Bits |-> FormatIpv4Addr(a) \o Slash \o FormatNat(l)]
PrefixV6 == [a \in AddrsV6, l \in 0..V6Bits |-> FormatIpv6Addr(a) \o Slash \o FormatNat(l)]
RangeV4 == [a \in AddrsV4, b \in AddrsV4 |-> FormatIpv4Addr(a) \o Dash \o FormatIpv4Addr(b)]
RangeV6 == [a \in EndsV6, b \in EndsV6 |-> FormatIpv6Addr(a) \o Dash \o FormatIpv6Addr(b)]

\* C21: core_ip on "addr/len" pushes the Ipv4 or Ipv6 value exactly when
\* the address has no host bit set, and otherwise reports 'invalid prefix
\* length', returns 0 and pushes nothing; every Ipv4 or Ipv6 value it
\* pushes has no host bit set.
C21_PrefixValidity ==
    /\ op = "ip"
       => \A a \in AddrsV4, l \in 0..V4Bits :
           IpOn(PrefixV4[a, l])
           => IF HostBitsZero(ipv4_addr_to_int(a), l, V4Bits)
              THEN stack = <<VIpv4(a, l)>> /\ ret = 1
              ELSE Rejected("invalid prefix length")
    /\ op = "ip"
       => \A a \in AddrsV6, l \in 0..V6Bits :
           IpOn(PrefixV6[a, l])
           => IF HostBitsZero(ipv6_addr_to_int(a), l, V6Bits)
              THEN stack = <<VIpv6(a, l)>> /\ ret = 1
              ELSE Rejected("invalid prefix length")
    /\ (op = "ip" /\ ret = 1 /\ stack # <<>> /\ Top(stack).t \in {"Ipv4", "Ipv6"})
       => HostBitsZero(addr_to_int(Top(stack).addr, 1), Top(stack).len,
                       Len(Top(stack).addr) * OctetBits)

C21_Witness ==
    /\ IpOn(PrefixV4[<<1, 0>>, OctetBits])
    /\ stack = <<VIpv4(<<1, 0>>, OctetBits)>>
    /\ ret = 1

\* C22: core_ip on "start-end" pushes the range exactly when start is
\* strictly below end; with start at or above end, or with more than one
\* dash, it reports an error, returns 0 and pushes nothing; every range it
\* pushes has its start below its end.
C22_RangeOrdering ==
    /\ op = "ip"
       => \A a \in AddrsV4, b \in AddrsV4 :
           IpOn(RangeV4[a, b])
           => IF ipv4_addr_to_int(a) < ipv4_addr_to_int(b)
              THEN stack = <<VIpv4Range(a, b)>> /\ ret = 1
              ELSE stack = <<>> /\ ret = 0 /\ diag # ""
    /\ op = "ip"
       => \A a \in EndsV6, b \in EndsV6 :
           IpOn(RangeV6[a, b])
           => IF ipv6_addr_to_int(a) < ipv6_addr_to_int(b)
              THEN stack = <<VIpv6Range(a, b)>> /\ ret = 1
              ELSE stack = <<>> /\ ret = 0 /\ diag # ""
    /\ (op = "ip" /\ Len(prev) = 1 /\ prev[1].t = "String"
        /\ Len(Split(prev[1].str, "-")) > 2)
       => stack = <<>> /\ ret = 0 /\ diag # ""
    /\ (op = "ip" /\ ret = 1 /\ stack # <<>>
        /\ Top(stack).t \in {"Ipv4Range", "Ipv6Range"})
       => addr_to_int(Top(stack).s, 1) < addr_to_int(Top(stack).e, 1)

C22_Witness ==
    /\ IpOn(<<"0", ".", "1", "-", "0", ".", "1">>)
    /\ stack = <<>>
    /\ ret = 0
    /\ diag = "unable to parse IP address"

\* The width of the addresses of an IP object.
WidthOf(ip) == IF ip.t \in {"Ipv4", "Ipv4Range"} THEN V4Bits ELSE V6Bits

\* C23: ip.len of a prefix pushes Int(len); ip.size of a prefix pushes the
\* BigInt 2^(width - len), the whole address space for length 0 included,
\* and ip.size of a range pushes BigInt(end - start + 1).
C23_LenAndSize ==
    /\ (op = "ip.len" /\ Len(prev) = 1 /\ prev[1].t \in {"Ipv4", "Ipv6"})
       => stack = <<VInt(prev[1].len)>> /\ ret = 1
    /\ (op = "ip.size" /\ Len(prev) = 1 /\ prev[1].t \in {"Ipv4", "Ipv6"})
       => stack = <<VBigInt(2^(WidthOf(prev[1]) - prev[1].len))>> /\ ret = 1
    /\ (op = "ip.size" /\ Len(prev) = 1 /\ prev[1].t \in {"Ipv4Range", "Ipv6Range"})
       => /\ stack = <<VBigInt(addr_to_int(prev[1].e, 1)
                               - addr_to_int(prev[1].s, 1) + 1)>>
          /\ ret = 1

\* C27: when core_ip returns 1 its argument has been replaced by one IP
\* object, and on an argument that has no text it returns 0.
C27_SuccessPushesIpObject ==
    /\ (op = "ip" /\ ret = 1)
       => /\ Len(stack) = Len(prev)
          /\ Pop(stack, 1) = Pop(prev, 1)
          /\ Top(stack).t \in IpTypes
    /\ (op = "ip" /\ Len(prev) >= 1 /\ Top(prev).t # "String"
        /\ ~IsSome(to_string(Top(prev)).val))
       => ret = 0

\* The range from s to e is the block of a prefix of length l.
IsBlock(s, e, l, bits) == e - s + 1 = 2^(bits - l) /\ HostBitsZero(s, l, bits)

\* C28: ip.len of a range pushes Int(L) when the range is exactly the
\* block of a valid prefix of length L, and for every other range reports
\* 'IP range has no length' and returns 0.
C28_RangeLen ==
    (op = "ip.len" /\ Len(prev) = 1 /\ prev[1].t \in {"Ipv4Range", "Ipv6Range"})
    => LET s == addr_to_int(prev[1].s, 1)
           e == addr_to_int(prev[1].e, 1)
           bits == WidthOf(prev[1])
       IN  IF \E l \in 0..bits : IsBlock(s, e, l, bits)
           THEN /\ ret = 1
                /\ \E l \in 0..bits : IsBlock(s, e, l, bits) /\ stack = <<VInt(l)>>
           ELSE Rejected("IP range has no length")

\* The width of the addresses of IP version v.
WidthOfVersion(v) == IF v = 4 THEN V4Bits ELSE V6Bits

\* C29: ip.from-int followed by ip.addr-int pushes BigInt(n) for version 4
\* or 6 and n within the address width; for a negative n, an n above the
\* width or another version ip.from-int reports an error, returns 0 and
\* pushes nothing, without a panic.
C29_FromIntAddrInt ==
    /\ [](\A v \in {VInt(4), VInt(5), VInt(6)},
             n \in (0 - 1)..(MaxV6 + 1) :
             (op = "ip.from-int" /\ prev = <<v, VBigInt(n)>>)
             => IF v.i \in {4, 6} /\ 0 <= n /\ n < 2^WidthOfVersion(v.i)
                THEN ret = 1 /\ Len(stack) = 1 /\ Top(stack).t \in {"Ipv4", "Ipv6"}
                ELSE stack = <<>> /\ ret = 0 /\ diag # "" /\ ~panicked)
    /\ [][(op = "ip.from-int" /\ ret = 1 /\ op' = "ip.addr-int")
          => stack' = <<VBigInt(Unwrap(to_bigint(prev[2])))>> /\ ret' = 1]_vars

(***************************************************************************)
(* Delivery of the CommandGenerator (checked under SpecCommand).           *)
(***************************************************************************)
\* The text a is the beginning of the text b.
IsPrefix(a, b) == Len(a) <= Len(b) /\ a = SubSeq(b, 1, Len(a))

\* C30: the lines returned for a selected stream, in the order returned,
\* are a beginning of what the child wrote to it and all of it once a read
\* has returned None; a returned line that does not end with a newline is
\* the last of its stream; in combined mode a line is tagged with its
\* stream.
C30_LosslessInOrder ==
    \A s \in Streams :
        /\ IsPrefix(delivered[s], written[s])
        /\ (nones > 0 /\ Selected(s)) => delivered[s] = written[s]
        /\ (lastLine[s] # <<>> /\ lastLine[s][Len(lastLine[s])] # "nl")
           => (closed[s] /\ delivered[s] = written[s])
        /\ (pc = "idle" /\ result.k = "pair" /\ result.tag = s)
           => (flags.get_combined /\ lastLine[s] = result.line)

(***************************************************************************)
(* Generators: a call of a generator function builds a GeneratorObject,    *)
(* SHIFT runs it to its next YIELD or to its end.  The dispatch of SHIFT   *)
(* and YIELD follows the shift protocol of the specification (4.5); the    *)
(* GeneratorObject is the one of chunk.rs.                                 *)
(***************************************************************************)
Instr(o, v, f) == [o |-> o, v |-> v, f |-> f]
SETLOCALVAR == Instr("SETLOCALVAR", VNull, "")
CONSTANT_(v) == Instr("CONSTANT", v, "")
CALL(f) == Instr("CALL", VNull, f)
YIELD == Instr("YIELD", VNull, "")
ENDFN == Instr("ENDFN", VNull, "")

\* The generator chunk: it stores its arg_count arguments in local
\* variables, yields 1, yields 2 from within a function it calls, yields 3
\* and returns.
GeneratorChunk(arg_count) ==
    [i \in 1..arg_count |-> SETLOCALVAR]
    \o <<CONSTANT_(VInt(1)), YIELD, CALL("fn"), CONSTANT_(VInt(3)), YIELD, ENDFN>>

\* The chunk of the function the generator calls.
FunctionChunk == <<CONSTANT_(VInt(2)), YIELD, ENDFN>>

Code(chunk) ==
    IF chunk = "gen" THEN GeneratorChunk(Len(called)) ELSE FunctionChunk

\* The instruction the dispatch loop is at; running off the end of a chunk
\* ends the function.
Fetch ==
    IF run.ip < Len(Code(run.chunk)) THEN Code(run.chunk)[run.ip + 1] ELSE ENDFN

\* A step of the VM and of the generator it holds.
OnlyGenerator ==
    CgIdle /\ UNCHANGED <<orig, copy, snap, side, chunkVars, stringVars>>

InGenerator(o) ==
    /\ ~panicked
    /\ ret = 1
    /\ run.at = "generator"
    /\ Fetch.o = o

\* The outer program: no opcode of the generator's chunks is running.
AtOuter == [at |-> "outer", chunk |-> "", ip |-> 0]

\* Calling a chunk with is_generator set: the GeneratorObject holds the
\* arguments and stands at the entry of the chunk.
call_generator(args) ==
    /\ ~panicked
    /\ gen = None
    /\ op = "none"
    /\ LET h1 == Alloc(heap, VecCell(<<>>))
           h2 == Alloc(h1, GeneratorObject_new(Len(h1), 0, "gen", <<>>, args))
       IN  /\ heap' = h2
           /\ gen' = Some(GeneratorAt(Len(h2)))
    /\ called' = args
    /\ prev' = stack
    /\ op' = "call"
    /\ ret' = 1
    /\ diag' = ""
    /\ UNCHANGED <<stack, panicked, vm_locals, vm_calls, saved, run, shifts>>
    /\ OnlyGenerator

\* SHIFT, steps (a) to (c): save the VM's local and call stacks, install
\* the generator's, push gen_args and clear them; the dispatch loop then
\* runs the generator from its index.
opcode_shift ==
    /\ ~panicked
    /\ ret = 1
    /\ IsSome(gen)
    /\ run.at = "outer"
    /\ Len(shifts) < MaxShifts
    /\ LET a == Unwrap(gen).at
           g == heap[a]
           locals == heap[g.local_vars_stack].items
       IN  /\ saved' = Some([locals |-> vm_locals, calls |-> vm_calls])
           /\ vm_locals' = locals
           /\ vm_calls' = g.call_stack_chunks
           /\ stack' = stack \o g.gen_args
           /\ heap' = [heap EXCEPT ![a].gen_args = <<>>]
           /\ run' = [at |-> "generator",
                      chunk |-> IF g.call_stack_chunks = <<>> THEN g.chunk
                                ELSE Top(g.call_stack_chunks).chunk,
                      ip |-> g.index]
           /\ shifts' = Append(shifts,
                  [injected |-> g.gen_args,
                   resumed |-> [index |-> g.index, locals |-> locals,
                                calls |-> g.call_stack_chunks],
                   outer |-> [locals |-> vm_locals, calls |-> vm_calls],
                   captured |-> None])
    /\ prev' = stack
    /\ op' = "shift"
    /\ ret' = 1
    /\ diag' = ""
    /\ UNCHANGED <<panicked, gen, called>>
    /\ OnlyGenerator

\* SETLOCALVAR in the generator: pop a value into a new local variable.
generator_setlocalvar ==
    /\ InGenerator("SETLOCALVAR")
    /\ IF stack = <<>>
       THEN /\ ret' = 0
            /\ diag' = "SETLOCALVAR requires one argument"
            /\ UNCHANGED <<stack, vm_locals, run>>
       ELSE /\ stack' = Pop(stack, 1)
            /\ vm_locals' = Append(vm_locals, Top(stack))
            /\ run' = [run EXCEPT !.ip = @ + 1]
            /\ UNCHANGED <<ret, diag>>
    /\ UNCHANGED <<prev, op, panicked, heap, gen, vm_calls, saved, called, shifts>>
    /\ OnlyGenerator

\* CONSTANT in the generator.
generator_constant ==
    /\ InGenerator("CONSTANT")
    /\ stack' = Append(stack, Fetch.v)
    /\ run' = [run EXCEPT !.ip = @ + 1]
    /\ UNCHANGED <<prev, op, ret, diag, panicked, heap, gen, vm_locals, vm_calls,
                   saved, called, shifts>>
    /\ OnlyGenerator

\* CALL in the generator: push a frame and transfer control.
generator_call ==
    /\ InGenerator("CALL")
    /\ vm_calls' = Append(vm_calls, [chunk |-> Fetch.f, ip |-> run.ip + 1])
    /\ run' = [run EXCEPT !.chunk = Fetch.f, !.ip = 0]
    /\ UNCHANGED <<stack, prev, op, ret, diag, panicked, heap, gen, vm_locals,
                   saved, called, shifts>>
    /\ OnlyGenerator

\* ENDFN in a function the generator called: pop the frame and resume the
\* caller.
generator_endfn ==
    /\ InGenerator("ENDFN")
    /\ vm_calls # <<>>
    /\ LET below == Pop(vm_calls, 1)
       IN  /\ vm_calls' = below
           /\ run' = [run EXCEPT
                        !.chunk = IF below = <<>> THEN "gen" ELSE Top(below).chunk,
                        !.ip = Top(vm_calls).ip]
    /\ UNCHANGED <<stack, prev, op, ret, diag, panicked, heap, gen, vm_locals,
                   saved, called, shifts>>
    /\ OnlyGenerator

\* YIELD, step (e): capture the local stack, the index and the call stack
\* in the GeneratorObject and restore the outer VM state; the yielded value
\* stays on the stack.
opcode_yield ==
    /\ InGenerator("YIELD")
    /\ stack # <<>>
    /\ LET a == Unwrap(gen).at
           g == heap[a]
       IN  /\ heap' = [heap EXCEPT ![a].index = run.ip + 1,
                                   ![a].call_stack_chunks = vm_calls,
                                   ![g.local_vars_stack].items = vm_locals]
           /\ shifts' = [shifts EXCEPT ![Len(shifts)].captured =
                            Some([index |-> run.ip + 1, locals |-> vm_locals,
                                  calls |-> vm_calls])]
    /\ vm_locals' = Unwrap(saved).locals
    /\ vm_calls' = Unwrap(saved).calls
    /\ saved' = None
    /\ run' = AtOuter
    /\ UNCHANGED <<stack, prev, op, ret, diag, panicked, gen, called>>
    /\ OnlyGenerator

\* Step (f): the generator function has ended; push Null, leave the
\* generator at the end of its chunk and restore the outer VM state.
generator_exhausted ==
    /\ InGenerator("ENDFN")
    /\ vm_calls = <<>>
    /\ LET a == Unwrap(gen).at
           g == heap[a]
       IN  heap' = [heap EXCEPT ![a].index = Len(Code(g.chunk)),
                                ![a].call_stack_chunks = <<>>,
                                ![g.local_vars_stack].items = vm_locals]
    /\ stack' = Append(stack, VNull)
    /\ vm_locals' = Unwrap(saved).locals
    /\ vm_calls' = Unwrap(saved).calls
    /\ saved' = None
    /\ run' = AtOuter
    /\ UNCHANGED <<prev, op, ret, diag, panicked, gen, called, shifts>>
    /\ OnlyGenerator

\* What a generator function is called with, and the local and call stacks
\* of the program that calls it.
ArgPool == {VInt(5), VString(<<"x">>)}
ArgLists == UNION {[1..n -> ArgPool] : n \in 0..MaxArgs}
OuterLocals == {<<>>, <<VInt(7)>>, <<VInt(7), VNull>>}
OuterCalls == {<<>>, <<[chunk |-> "main", ip |-> 4]>>}

InitGenerator ==
    /\ InitVm
    /\ CommandGenerator_new(TRUE, FALSE, FALSE)
    /\ NoHeap
    /\ Chunk_new_standard
    /\ NoTriple
    /\ gen = None
    /\ vm_locals \in OuterLocals
    /\ vm_calls \in OuterCalls
    /\ saved = None
    /\ run = AtOuter
    /\ called = <<>>
    /\ shifts = <<>>

\* Programs that call the generator function and SHIFT the generator.
NextGenerator ==
    \/ \E args \in ArgLists : call_generator(args)
    \/ opcode_shift
    \/ generator_setlocalvar
    \/ generator_constant
    \/ generator_call
    \/ generator_endfn
    \/ opcode_yield
    \/ generator_exhausted

SpecGenerator == InitGenerator /\ [][NextGenerator]_vars

\* What k successive SHIFTs of the generator leave on the stack.
Shifted(k) == [i \in 1..k |-> IF i <= 3 THEN VInt(i) ELSE VNull]

\* C24: successive SHIFTs of the generator that yields 1, 2, 3 leave
\* Int(1), Int(2), Int(3) and then Null for every further SHIFT; a SHIFT
\* resumes with the index, local stack and call stack the previous YIELD
\* captured; only the first SHIFT injects the arguments of the call; after
\* every SHIFT the VM has the local and call stacks it had before it.
C24_ShiftProtocol ==
    /\ ret = 1
    /\ run.at = "outer" => /\ stack = Shifted(Len(shifts))
                           /\ saved = None
    /\ (run.at = "outer" /\ shifts # <<>>)
       => /\ vm_locals = shifts[Len(shifts)].outer.locals
          /\ vm_calls = shifts[Len(shifts)].outer.calls
    /\ \A k \in 1..Len(shifts) :
           /\ shifts[k].injected = IF k = 1 THEN called ELSE <<>>
           /\ shifts[k].outer = shifts[1].outer
           /\ (k > 1 /\ IsSome(shifts[k - 1].captured))
              => shifts[k].resumed = Unwrap(shifts[k - 1].captured)
           /\ (k > 3 /\ k < Len(shifts)) => shifts[k].captured = None

\* Four SHIFTs of a generator called with an argument, from a program with
\* local variables and a caller, have left 1, 2, 3 and Null.
C24_Witness ==
    /\ run.at = "outer"
    /\ Len(shifts) = 4
    /\ stack = <<VInt(1), VInt(2), VInt(3), VNull>>
    /\ called = <<VInt(5)>>
    /\ shifts[1].injected = <<VInt(5)>>
    /\ shifts[3].resumed.calls = <<[chunk |-> "fn", ip |-> 3 + Len(called)]>>
    /\ vm_locals = <<VInt(7), VNull>>
    /\ vm_calls = <<[chunk |-> "main", ip |-> 4]>>

====
